---- MODULE Spec2Model ----
(***************************************************************************)
(* A model of the t-ccd particle simulator (simulator crate) and of the    *)
(* pair-TOI kernel and missed-collision scan of its validator.             *)
(*                                                                         *)
(* Arithmetic.  The program computes in f32.  The model computes in exact  *)
(* rationals <<n, d>> (d > 0, lowest terms); <<1, 0>> is f32::INFINITY.    *)
(* A square root is exact when its argument is the square of a rational    *)
(* and is otherwise rounded down to a multiple of 1/SqrtPrec.  Masses are  *)
(* kept in units of pi (mass = r*r): the impulse uses mass ratios only.    *)
(* Lengths are in units of 100 pixels, times in seconds.                   *)
(*                                                                         *)
(* A `let` of the program whose value is used more than once is passed on  *)
(* as the parameter of the operator that models the lines after it.        *)
(***************************************************************************)
EXTENDS Integers, Sequences, FiniteSets, TLC

VARIABLES
    particles,   \* TCcdSim.particles: sequence of Particle records
    cells,       \* SpatialGrid.cells: cell coordinate -> list of indices
    r_max,       \* SpatialGrid.r_max
    method,      \* the detector variant chosen at construction
    bounds,      \* the Bounds handed to the running step
    dt0,         \* the dt handed to the running step
    dt,          \* solve's local `mut dt` (the remaining time)
    iter,        \* sub-iterations of the running solve begun so far
    pc,          \* "new" (constructed) | "idle" (between frames) | "loop" (in solve);
                 \* "kernel" | "kernel_done" where the pair kernels run on their own
    frame,       \* Recorder.frame
    time_s,      \* Recorder.time_s
    events,      \* rows written to the events CSV, in order
    snapshots,   \* rows written to the particles CSV, one entry per snapshot
    start,       \* particles at the start of the running step (ghost)
    last,        \* what the latest sub-iteration did (ghost)
    impulses,    \* velocity changes applied during the latest step (ghost)
    preclamp,    \* particles as the latest solve handed them to the clamp (ghost)
    toi_sim,     \* what the simulator's p2p_toi returned for the kernel inputs
    toi_val,     \* what the validator's p2p_toi returned for the kernel inputs
    particles_csv,    \* the particles CSV given to validate: its rows, and the
                      \* index of a row that does not parse (0 if all do)
    events_csv,       \* the events CSV, in the same form
    max_frame,        \* StreamingValidator.max_frame
    particle_stream,  \* BufferedParticleReader: rows read so far, and peeked
    event_stream,     \* BufferedEventReader: rows read so far, and peeked
    prev_window,      \* validate's prev_window
    v_frame,          \* validate's local `frame`
    report,           \* validate's ValidationReport
    v_pc,             \* validate: "off", "start", "loop", "ok" (the report is
                      \* returned), "err_empty" or "err_parse" (an error is)
    reads,            \* what each read_frame call was asked and gave
    windows           \* what each validate_frame call was given

\* the simulation
svars == <<particles, cells, r_max, method, bounds, dt0, dt, iter, pc, frame,
           time_s, events, snapshots, start, last, impulses, preclamp,
           toi_sim, toi_val>>

\* the validator
vvars == <<particles_csv, events_csv, max_frame, particle_stream, event_stream,
           prev_window, v_frame, report, v_pc, reads, windows>>

vars == <<svars, vvars>>

----------------------------------------------------------------------------
(* Rational arithmetic standing for f32. *)

RECURSIVE Gcd(_, _)
Gcd(a, b) == IF b = 0 THEN a ELSE Gcd(b, a % b)

Abs(n) == IF n < 0 THEN -n ELSE n

Norm(n, d) ==
    IF d = 0 THEN <<1, 0>>
    ELSE LET g == Gcd(Abs(n), Abs(d))
             s == IF d < 0 THEN -1 ELSE 1
         IN  <<s * (n \div g), s * (d \div g)>>

Rat(n) == <<n, 1>>
Zero == <<0, 1>>
INFINITY == <<1, 0>>

is_finite(a) == a[2] # 0

\* the sums, products and comparisons cancel common factors first, so that
\* no intermediate value outgrows the numbers it is computed from
RAdd(a, b) ==
    IF a[2] = 0 \/ b[2] = 0 THEN INFINITY
    ELSE LET g == Gcd(a[2], b[2])
         IN  Norm(a[1] * (b[2] \div g) + b[1] * (a[2] \div g), a[2] * (b[2] \div g))
RNeg(a) == <<-a[1], a[2]>>
RSub(a, b) == RAdd(a, RNeg(b))
RMul(a, b) ==
    LET g1 == Gcd(Abs(a[1]), b[2])
        g2 == Gcd(Abs(b[1]), a[2])
    IN  IF g1 = 0 \/ g2 = 0 THEN Norm(a[1] * b[1], a[2] * b[2])
        ELSE Norm((a[1] \div g1) * (b[1] \div g2), (a[2] \div g2) * (b[2] \div g1))
RDiv(a, b) == IF b[1] < 0 THEN RMul(a, <<-b[2], -b[1]>>) ELSE RMul(a, <<b[2], b[1]>>)
RLt(a, b) ==
    LET g == Gcd(a[2], b[2])
    IN  IF g = 0 THEN a[1] * b[2] < b[1] * a[2]
        ELSE a[1] * (b[2] \div g) < b[1] * (a[2] \div g)
RLe(a, b) ==
    LET g == Gcd(a[2], b[2])
    IN  IF g = 0 THEN a[1] * b[2] <= b[1] * a[2]
        ELSE a[1] * (b[2] \div g) <= b[1] * (a[2] \div g)
RAbs(a) == <<Abs(a[1]), a[2]>>
RMin(a, b) == IF RLt(b, a) THEN b ELSE a
RMax(a, b) == IF RLt(a, b) THEN b ELSE a

\* a <= 1/k, for a finite rational a and an integer k >= 1
LeInv(a, k) == IF a[1] <= 0 THEN TRUE ELSE (a[2] \div a[1]) >= k

\* floor and ceil of a finite rational (f32::floor, f32::ceil, then `as i32`)
Floor(a) == a[1] \div a[2]
Ceil(a) == -((-a[1]) \div a[2])

RECURSIVE ISqrtIn(_, _, _)
ISqrtIn(k, lo, hi) ==
    IF lo >= hi THEN lo
    ELSE LET mid == (lo + hi + 1) \div 2
         IN  IF mid * mid <= k THEN ISqrtIn(k, mid, hi) ELSE ISqrtIn(k, lo, mid - 1)

\* the integer square root, rounded down
ISqrt(k) == ISqrtIn(k, 0, IF k < 46340 THEN k ELSE 46340)

IsSquare(k) == k >= 0 /\ ISqrt(k) * ISqrt(k) = k

\* the resolution to which an irrational square root is rounded
SqrtPrec == 16

\* f32::sqrt of a rational a >= 0
RSqrt(a) ==
    IF IsSquare(a[1]) /\ IsSquare(a[2]) THEN <<ISqrt(a[1]), ISqrt(a[2])>>
    ELSE Norm(ISqrt(a[1] * a[2] * SqrtPrec * SqrtPrec), a[2] * SqrtPrec)

\* Option<T>: None is the empty set, Some(x) the singleton
None == {}
Some(x) == {x}
Get(o) == CHOOSE x \in o : TRUE

----------------------------------------------------------------------------
(* Particle and Bounds. *)

Particle(px, py, vx, vy, radius) ==
    [px |-> px, py |-> py, vx |-> vx, vy |-> vy,
     radius |-> radius, mass |-> RMul(radius, radius),
     color |-> <<Zero, Zero, Zero>>]

half_extents(b) == <<RDiv(b.width, Rat(2)), RDiv(b.height, Rat(2))>>

Dot(ax, ay, bx, by) == RAdd(RMul(ax, bx), RMul(ay, by))

----------------------------------------------------------------------------
(* TOI kernels, simulator/src/detector.rs. *)

\* a <= 1e-12
LeTiny(a) == IF a[1] <= 0 THEN TRUE ELSE ((a[2] \div a[1]) \div 1000000) >= 1000000

\* the discriminant b*b - 4ac of the pair quadratic
p2p_disc(a, b, c) == RSub(RMul(b, b), RMul(Rat(4), RMul(a, c)))

p2p_window_open(t_min, dtw) == IF RLe(Zero, t_min) THEN Some(t_min) ELSE None

\* match t_min >= 0.0 && t_min <= dt
p2p_window(t_min, dtw) ==
    IF RLe(Zero, t_min) /\ RLe(t_min, dtw) THEN Some(t_min) ELSE None

\* from `if disc < 0.0` on
p2p_root(a, b, disc, dtw) ==
    IF RLt(disc, Zero) THEN None
    ELSE p2p_window(RDiv(RSub(RNeg(b), RSqrt(disc)), RMul(Rat(2), a)), dtw)

p2p_quadratic_c_negative(a, b, c, dtw) ==
    IF RLt(c, Zero) THEN None
    ELSE IF LeTiny(a) THEN None
    ELSE IF RLe(Zero, b) THEN None
    ELSE p2p_root(a, b, p2p_disc(a, b, c), dtw)

\* from `if c <= 0.0` on
p2p_quadratic(a, b, c, dtw) ==
    IF RLe(c, Zero) THEN None
    ELSE IF LeTiny(a) THEN None
    ELSE IF RLe(Zero, b) THEN None
    ELSE p2p_root(a, b, p2p_disc(a, b, c), dtw)

\* from `let a = dv.dot(dv)` on
p2p_relative(dpx, dpy, dvx, dvy, r, dtw) ==
    p2p_quadratic(Dot(dvx, dvy, dvx, dvy), RMul(Rat(2), Dot(dpx, dpy, dvx, dvy)),
                  RSub(Dot(dpx, dpy, dpx, dpy), RMul(r, r)), dtw)

p2p_toi(p1, p2, dtw) ==
    p2p_relative(RSub(p2.px, p1.px), RSub(p2.py, p1.py),
                 RSub(p2.vx, p1.vx), RSub(p2.vy, p1.vy),
                 RAdd(p1.radius, p2.radius), dtw)

\* `if t >= 0.0 && t <= dt { t_min = t_min.min(t) }`
axis_take_unbounded(t, dtw, t_min) == IF RLe(Zero, t) THEN RMin(t_min, t) ELSE t_min

axis_take(t, dtw, t_min) ==
    IF RLe(Zero, t) /\ RLe(t, dtw) THEN RMin(t_min, t) ELSE t_min

axis_toi_far_edge(pos, vel, lo, hi, dtw, t_min) ==
    IF RLt(Zero, vel) THEN axis_take(RDiv(RSub(lo, pos), vel), dtw, t_min)
    ELSE IF RLt(vel, Zero) THEN axis_take(RDiv(RSub(hi, pos), vel), dtw, t_min)
    ELSE t_min

\* one axis of boundary_toi: the crossing time of the edge the particle moves to
axis_toi(pos, vel, lo, hi, dtw, t_min) ==
    IF RLt(Zero, vel) THEN axis_take(RDiv(RSub(hi, pos), vel), dtw, t_min)
    ELSE IF RLt(vel, Zero) THEN axis_take(RDiv(RSub(lo, pos), vel), dtw, t_min)
    ELSE t_min

x_min(p, b) == RAdd(RNeg(half_extents(b)[1]), p.radius)
x_max(p, b) == RSub(half_extents(b)[1], p.radius)
y_min(p, b) == RAdd(RNeg(half_extents(b)[2]), p.radius)
y_max(p, b) == RSub(half_extents(b)[2], p.radius)

\* match t_min.is_finite()
boundary_pick(t_min) == IF is_finite(t_min) THEN Some(t_min) ELSE None

boundary_toi(p, b, dtw) ==
    boundary_pick(
        axis_toi(p.py, p.vy, y_min(p, b), y_max(p, b), dtw,
                 axis_toi(p.px, p.vx, x_min(p, b), x_max(p, b), dtw, INFINITY)))

----------------------------------------------------------------------------
(* The validator's pair kernel, validate/src/validator/comp.rs, on the     *)
(* ParticleState the validator builds from a particles CSV row.            *)

\* impl From<ParticleRow> for ParticleState
ParticleState(row) ==
    [px |-> row.x, py |-> row.y, vx |-> row.vx, vy |-> row.vy,
     radius |-> row.radius, mass |-> row.radius]

v_p2p_window(t_min, dtw) ==
    IF RLe(Zero, t_min) /\ RLe(t_min, dtw) THEN Some(t_min) ELSE None

v_p2p_root(a, b, disc, dtw) ==
    IF RLt(disc, Zero) THEN None
    ELSE v_p2p_window(RDiv(RSub(RNeg(b), RSqrt(disc)), RMul(Rat(2), a)), dtw)

v_p2p_quadratic(a, b, c, dtw) ==
    IF RLe(c, Zero) THEN None
    ELSE IF LeTiny(a) THEN None
    ELSE IF RLe(Zero, b) THEN None
    ELSE v_p2p_root(a, b, RSub(RMul(b, b), RMul(Rat(4), RMul(a, c))), dtw)

v_p2p_relative(dpx, dpy, dvx, dvy, r, dtw) ==
    v_p2p_quadratic(Dot(dvx, dvy, dvx, dvy), RMul(Rat(2), Dot(dpx, dpy, dvx, dvy)),
                    RSub(Dot(dpx, dpy, dpx, dpy), RMul(r, r)), dtw)

v_p2p_toi(p1, p2, dtw) ==
    v_p2p_relative(RSub(p2.px, p1.px), RSub(p2.py, p1.py),
                   RSub(p2.vx, p1.vx), RSub(p2.vy, p1.vy),
                   RAdd(p1.radius, p2.radius), dtw)

----------------------------------------------------------------------------
(* The spatial grid, simulator/src/spatial.rs. *)

\* --cell-size of the run
cell_size == Rat(2)

cell_coord(x, y) == <<Floor(RDiv(x, cell_size)), Floor(RDiv(y, cell_size))>>

RECURSIVE CellMembers(_, _, _)
\* the indices k >= i of ps, ascending, whose particle lies in cell c
CellMembers(ps, c, i) ==
    IF i > Len(ps) THEN <<>>
    ELSE (IF cell_coord(ps[i].px, ps[i].py) = c THEN <<i>> ELSE <<>>)
         \o CellMembers(ps, c, i + 1)

\* a rebuild that files every particle under the cell of the first one
rebuild_in_first_cell(ps) ==
    [c \in {cell_coord(ps[1].px, ps[1].py)} |-> [k \in 1..Len(ps) |-> k]]

rebuild(ps) ==
    [c \in {cell_coord(ps[i].px, ps[i].py) : i \in 1..Len(ps)} |->
        CellMembers(ps, c, 1)]

\* self.cells.get(&c), an absent cell read as the empty list
cells_get(g, c) == IF c \in DOMAIN g THEN g[c] ELSE <<>>

RECURSIVE Flatten(_, _)
\* the lists of the cells of cs, in order, concatenated
Flatten(g, cs) ==
    IF cs = <<>> THEN <<>> ELSE cells_get(g, Head(cs)) \o Flatten(g, Tail(cs))

RECURSIVE Dedup(_, _, _)
\* `if j != i && seen.insert(j) { out.push_back(j) }` over the list js
Dedup(js, i, seen) ==
    IF js = <<>> THEN <<>>
    ELSE IF Head(js) = i \/ Head(js) \in seen THEN Dedup(Tail(js), i, seen)
    ELSE <<Head(js)>> \o Dedup(Tail(js), i, seen \cup {Head(js)})

DIRS == << <<-1, -1>>, <<-1, 0>>, <<-1, 1>>, <<0, -1>>, <<0, 0>>,
           <<0, 1>>, <<1, -1>>, <<1, 0>>, <<1, 1>> >>

\* the 3 x 3 block around the cell base, in the order of DIRS
cell_block(base) == [d \in 1..9 |-> <<base[1] + DIRS[d][1], base[2] + DIRS[d][2]>>]

cell_list(g, p) == Flatten(g, cell_block(cell_coord(p.px, p.py)))

\* w * h cells from lo on, row by row
BlockOf(lo, w, h) ==
    IF w <= 0 \/ h <= 0 THEN <<>>
    ELSE [n \in 1..(w * h) |-> <<lo[1] + ((n - 1) % w), lo[2] + ((n - 1) \div w)>>]

\* the cells cy in lo[2]..hi[2], cx in lo[1]..hi[1], row by row
BlockCells(lo, hi) == BlockOf(lo, hi[1] - lo[1] + 1, hi[2] - lo[2] + 1)

\* the cells of the path, not inflated
swept_block_of_path(x1, y1, x2, y2, r) ==
    BlockCells(cell_coord(RMin(x1, x2), RMin(y1, y2)),
               cell_coord(RMax(x1, x2), RMax(y1, y2)))

\* from `let mins = p1.min(p2) - Vec2::splat(r)` on
swept_block(x1, y1, x2, y2, r) ==
    BlockCells(cell_coord(RSub(RMin(x1, x2), r), RSub(RMin(y1, y2), r)),
               cell_coord(RAdd(RMax(x1, x2), r), RAdd(RMax(y1, y2), r)))

candidates_swept_aabb(g, rmax, ps, i, dtw) ==
    Dedup(Flatten(g, swept_block(ps[i].px, ps[i].py,
                                 RAdd(ps[i].px, RMul(ps[i].vx, dtw)),
                                 RAdd(ps[i].py, RMul(ps[i].vy, dtw)),
                                 RAdd(ps[i].radius, rmax))), i, {}) 

\* step_x, step_y
ray_step(d) == IF RLt(Zero, d) THEN 1 ELSE IF RLt(d, Zero) THEN -1 ELSE 0

\* the next edge taken on the far side of the cell whatever the direction
ray_boundary_ahead(c, st) == RMul(Rat(c + 1), cell_size)

\* next_boundary_x, next_boundary_y
ray_boundary(c, st) ==
    IF st > 0 THEN RMul(Rat(c + 1), cell_size) ELSE RMul(Rat(c), cell_size)

\* inv.x, inv.y
ray_inv(d) == IF d # Zero THEN RDiv(Rat(1), d) ELSE Zero

\* tx, ty
ray_t(o, d, c) ==
    IF ray_step(d) # 0 /\ d # Zero
    THEN RMul(RSub(ray_boundary(c, ray_step(d)), o), ray_inv(d)) ELSE INFINITY

\* tdx, tdy
ray_td(d) ==
    IF ray_step(d) # 0 /\ d # Zero
    THEN RMul(RMul(cell_size, Rat(ray_step(d))), ray_inv(d)) ELSE INFINITY

\* from `Self { cur: cell, .. }` on
ray_make(cell, ox, oy, dx, dy, tmax) ==
    [cur |-> cell, step |-> <<ray_step(dx), ray_step(dy)>>,
     t_max |-> <<RMax(ray_t(ox, dx, cell[1]), Zero), RMax(ray_t(oy, dy, cell[2]), Zero)>>,
     t_delta |-> <<RAbs(ray_td(dx)), RAbs(ray_td(dy))>>,
     t_remain |-> RMax(tmax, Zero), done |-> FALSE]

\* GridRayIter::new
GridRayIter(ox, oy, dx, dy, tmax) == ray_make(cell_coord(ox, oy), ox, oy, dx, dy, tmax)

\* the most cells one ray is followed for
MaxRayCells == 24

\* the iterator after a step on axis a (1: x, 2: y)
ray_advance(it, a) ==
    [it EXCEPT !.cur[a] = it.cur[a] + it.step[a],
               !.t_max[a] = RAdd(it.t_max[a], it.t_delta[a])]

RECURSIVE RayCells(_, _)
\* the cells GridRayIter::next yields until it returns None
RayCells(it, fuel) ==
    IF it.done \/ fuel = 0 THEN <<>>
    ELSE IF RLe(it.t_remain, Zero)
            \/ (~is_finite(it.t_max[1]) /\ ~is_finite(it.t_max[2]))
    THEN <<it.cur>>
    ELSE IF RLt(it.t_max[1], it.t_max[2])
    THEN IF RLt(it.t_remain, it.t_max[1]) THEN <<it.cur>>
         ELSE <<it.cur>> \o RayCells(ray_advance(it, 1), fuel - 1)
    ELSE IF RLt(it.t_remain, it.t_max[2]) THEN <<it.cur>>
         ELSE <<it.cur>> \o RayCells(ray_advance(it, 2), fuel - 1)

RECURSIVE Widen(_, _)
\* the (2k+1) x (2k+1) blocks around the cells of cs, in order
Widen(cs, k) ==
    IF cs = <<>> THEN <<>>
    ELSE BlockOf(<<Head(cs)[1] - k, Head(cs)[2] - k>>, 2 * k + 1, 2 * k + 1)
         \o Widen(Tail(cs), k)

\* ((p.radius + self.r_max) / self.cell_size).ceil().max(1.0) as i32
sweep_k(kc) == IF kc < 1 THEN 1 ELSE kc

candidates_along_sweep_with_radius(g, rmax, ps, i, dtw) ==
    Dedup(Flatten(g, Widen(RayCells(GridRayIter(ps[i].px, ps[i].py,
                                                ps[i].vx, ps[i].vy, dtw), MaxRayCells),
                           sweep_k(Ceil(RDiv(RAdd(ps[i].radius, rmax), cell_size))))),
          i, {})

----------------------------------------------------------------------------
(* The detectors, simulator/src/detector.rs.  Particle indices are 1-based *)
(* here (index k stands for the program's k - 1).                          *)

Pair(i, j) == [kind |-> "Pair", i |-> i, j |-> j]
Wall(i) == [kind |-> "Wall", i |-> i, j |-> 0]
Toi(t, c) == [time |-> t, collision |-> c]

\* !min_toi.is_some_and(|toi| t >= toi.time)
Beats(t, min_toi) == min_toi = None \/ RLt(t, Get(min_toi).time)

RECURSIVE ScanPairs(_, _, _, _, _)
\* the body of `for j in candidates` after p2p_toi returned t
ScanStep(ps, i, js, min_toi, dt_i, t) ==
    IF t # None /\ Beats(Get(t), min_toi)
    THEN ScanPairs(ps, i, Tail(js), Some(Toi(Get(t), Pair(i, Head(js)))), Get(t))
    ELSE ScanPairs(ps, i, Tail(js), min_toi, dt_i)

\* the `for j in candidates` loop of one particle: <<min_toi, dt_i>> after it
ScanPairs(ps, i, js, min_toi, dt_i) ==
    IF js = <<>> THEN <<min_toi, dt_i>>
    ELSE IF Head(js) <= i THEN ScanPairs(ps, i, Tail(js), min_toi, dt_i)
    ELSE ScanStep(ps, i, js, min_toi, dt_i, p2p_toi(ps[i], ps[Head(js)], dt_i))

\* `&& !min_toi.is_some_and(..)` and the assignment, after boundary_toi returned t
WallStep(i, min_toi, t) ==
    IF t # None /\ Beats(Get(t), min_toi) THEN Some(Toi(Get(t), Wall(i))) ELSE min_toi

\* the wall test that closes the closure of CellListDetector and SweptAabbDetector
ScanWall(ps, i, b, scan) == WallStep(i, scan[1], boundary_toi(ps[i], b, scan[2]))

\* the wall test of TccdDetector, guarded by dt_i > 0.0
ScanWallTccd(ps, i, b, scan) ==
    IF RLt(Zero, scan[2]) THEN ScanWall(ps, i, b, scan) ELSE scan[1]

Candidates(m, g, rmax, ps, i, dtw) ==
    IF m = "CellList" THEN cell_list(g, ps[i])
    ELSE IF m = "Tccd" THEN candidates_along_sweep_with_radius(g, rmax, ps, i, dtw)
    ELSE candidates_swept_aabb(g, rmax, ps, i, dtw)

\* the wall test of detector m
ScanWallOf(m, ps, i, b, scan) ==
    IF m = "Tccd" THEN ScanWallTccd(ps, i, b, scan) ELSE ScanWall(ps, i, b, scan)

\* the filter_map closure: the best TOI of particle i, or None
ParticleToi(m, g, rmax, ps, b, dtw, i) ==
    ScanWallOf(m, ps, i, b,
               ScanPairs(ps, i, Candidates(m, g, rmax, ps, i, dtw), None, dtw))

\* a reduction that returns any record found
min_by_time_any(found) == found

\* min_by(|a, b| a.time.partial_cmp(&b.time)): rayon leaves open which of
\* several records of equal, minimal time the reduction returns
min_by_time(found) == {a \in found : \A c \in found : RLe(a.time, c.time)}

\* find_min_toi: the records it may return (empty: None)
find_min_toi(m, g, rmax, ps, b, dtw) ==
    min_by_time(UNION {ParticleToi(m, g, rmax, ps, b, dtw, i) : i \in 1..Len(ps)})

----------------------------------------------------------------------------
(* The solver, simulator/src/solver.rs. *)

\* EPS_T is 1e-5, here its inverse
InvEpsT == 100000
\* dt <= EPS_T
LeEpsT(t) == LeInv(t, InvEpsT)

MAX_ITER == 100

loop_continues_inclusive(n) == n <= MAX_ITER

\* `for _ in 0..MAX_ITER`: the loop runs its body after n passes
loop_continues(n) == n < MAX_ITER

advance_all_reversed(ps, t) ==
    [k \in 1..Len(ps) |->
        [ps[Len(ps) + 1 - k]
            EXCEPT !.px = RAdd(ps[Len(ps) + 1 - k].px, RMul(ps[Len(ps) + 1 - k].vx, t)),
                   !.py = RAdd(ps[Len(ps) + 1 - k].py, RMul(ps[Len(ps) + 1 - k].vy, t))]]

advance_all(ps, t) ==
    [k \in 1..Len(ps) |->
        [ps[k] EXCEPT !.px = RAdd(ps[k].px, RMul(ps[k].vx, t)),
                      !.py = RAdd(ps[k].py, RMul(ps[k].vy, t))]]

\* what resolve_collision leaves when it returns early
Unresolved(ps) == [ps |-> ps, rows |-> <<>>]

impulse_factor_inelastic(m1, m2) == RDiv(RMul(m1, m2), RAdd(m1, m2))

impulse_factor_mean(m1, m2) == RDiv(RAdd(m1, m2), Rat(2))

\* 2.0 * m1 * m2 / (m1 + m2)
impulse_factor(m1, m2) == RDiv(RMul(Rat(2), RMul(m1, m2)), RAdd(m1, m2))

\* v_rel_n_after and write_event_pair, for the particles qs after the impulse
pair_record(qs, t, i, j, hx, hy, v_rel_n) ==
    [ps |-> qs,
     rows |-> << [type |-> "Pair", toi |-> t, i |-> i, j |-> j, wall |-> "",
                  nx |-> hx, ny |-> hy, before |-> v_rel_n,
                  after |-> Dot(RSub(qs[j].vx, qs[i].vx),
                                RSub(qs[j].vy, qs[i].vy), hx, hy)] >>]

pair_apply_one_sided(ps, t, i, j, hx, hy, v_rel_n, jx, jy) ==
    pair_record([ps EXCEPT ![i].vx = RAdd(ps[i].vx, RDiv(jx, ps[i].mass)),
                           ![i].vy = RAdd(ps[i].vy, RDiv(jy, ps[i].mass))],
                t, i, j, hx, hy, v_rel_n)

\* `velocity += impulse / m1`, `velocity -= impulse / m2`, impulse = (jx, jy)
pair_apply(ps, t, i, j, hx, hy, v_rel_n, jx, jy) ==
    pair_record([ps EXCEPT ![i].vx = RAdd(ps[i].vx, RDiv(jx, ps[i].mass)),
                           ![i].vy = RAdd(ps[i].vy, RDiv(jy, ps[i].mass)),
                           ![j].vx = RSub(ps[j].vx, RDiv(jx, ps[j].mass)),
                           ![j].vy = RSub(ps[j].vy, RDiv(jy, ps[j].mass))],
                t, i, j, hx, hy, v_rel_n)

\* from `if v_rel_n >= 0.0` on
pair_impulse(ps, t, i, j, hx, hy, v_rel_n) ==
    IF RLe(Zero, v_rel_n) THEN Unresolved(ps)
    ELSE pair_apply(ps, t, i, j, hx, hy, v_rel_n,
                    RMul(RMul(impulse_factor(ps[i].mass, ps[j].mass), v_rel_n), hx),
                    RMul(RMul(impulse_factor(ps[i].mass, ps[j].mass), v_rel_n), hy))

\* from `let v_rel_n = ..` on, n_hat = (hx, hy)
pair_normal(ps, t, i, j, hx, hy) ==
    pair_impulse(ps, t, i, j, hx, hy,
                 Dot(RSub(ps[j].vx, ps[i].vx), RSub(ps[j].vy, ps[i].vy), hx, hy))

\* from `if dist2 == 0.0` on, n = (nx, ny)
pair_contact(ps, t, i, j, nx, ny, dist2) ==
    IF dist2 = Zero THEN Unresolved(ps)
    ELSE pair_normal(ps, t, i, j, RDiv(nx, RSqrt(dist2)), RDiv(ny, RSqrt(dist2)))

\* from `let dist2 = n.dot(n)` on
pair_offset(ps, t, i, j, nx, ny) ==
    pair_contact(ps, t, i, j, nx, ny, Dot(nx, ny, nx, ny))

\* Collision::Pair(i, j): the particles after it and the row it writes, if any
resolve_pair(ps, t, i, j) ==
    pair_offset(ps, t, i, j, RSub(ps[j].px, ps[i].px), RSub(ps[j].py, ps[i].py))

\* the wall a position is at: left, right, bottom, else top
wall_of(p, b) ==
    IF RLe(p.px, x_min(p, b)) THEN "left"
    ELSE IF RLe(x_max(p, b), p.px) THEN "right"
    ELSE IF RLe(p.py, y_min(p, b)) THEN "bottom"
    ELSE "top"

\* the normal n chosen from the position before the response
wall_normal(w) ==
    IF w = "left" THEN <<Rat(-1), Zero>>
    ELSE IF w = "right" THEN <<Rat(1), Zero>>
    ELSE IF w = "bottom" THEN <<Zero, Rat(-1)>>
    ELSE <<Zero, Rat(1)>>

\* a response that flips at an edge whatever the direction of motion
wall_axis_any_direction(pos, vel, lo, hi) ==
    IF RLe(pos, lo) THEN <<lo, RNeg(vel)>>
    ELSE IF RLe(hi, pos) THEN <<hi, RNeg(vel)>>
    ELSE <<pos, vel>>

\* one axis of the wall response: <<position, velocity>> after it
wall_axis(pos, vel, lo, hi) ==
    IF RLe(pos, lo) /\ RLt(vel, Zero) THEN <<lo, RNeg(vel)>>
    ELSE IF RLe(hi, pos) /\ RLt(Zero, vel) THEN <<hi, RNeg(vel)>>
    ELSE <<pos, vel>>

\* vn_after, the wall name and write_event_wall, for the particles qs after
\* the response
wall_record(qs, b, t, i, n, vn_before) ==
    [ps |-> qs,
     rows |-> << [type |-> "Wall", toi |-> t, i |-> i, j |-> 0,
                  wall |-> wall_of(qs[i], b), nx |-> n[1], ny |-> n[2],
                  before |-> vn_before,
                  after |-> Dot(qs[i].vx, qs[i].vy, n[1], n[2])] >>]

\* the two `if .. else if` of the response, ax and ay their outcomes
wall_apply(ps, b, t, i, n, ax, ay) ==
    wall_record([ps EXCEPT ![i].px = ax[1], ![i].vx = ax[2],
                           ![i].py = ay[1], ![i].vy = ay[2]],
                b, t, i, n, Dot(ps[i].vx, ps[i].vy, n[1], n[2]))

\* Collision::Wall(i)
resolve_wall(ps, b, t, i) ==
    wall_apply(ps, b, t, i, wall_normal(wall_of(ps[i], b)),
               wall_axis(ps[i].px, ps[i].vx, x_min(ps[i], b), x_max(ps[i], b)),
               wall_axis(ps[i].py, ps[i].vy, y_min(ps[i], b), y_max(ps[i], b)))

resolve_collision(ps, b, toi) ==
    IF toi.collision.kind = "Pair"
    THEN resolve_pair(ps, toi.time, toi.collision.i, toi.collision.j)
    ELSE resolve_wall(ps, b, toi.time, toi.collision.i)

clamp_axis_in_place(pos, vel, lo, hi) ==
    IF RLt(pos, lo) THEN <<pos, RNeg(vel)>>
    ELSE IF RLt(hi, pos) THEN <<pos, RNeg(vel)>>
    ELSE <<pos, vel>>

\* a clamp that turns the velocity inward
clamp_axis_inward(pos, vel, lo, hi) ==
    IF RLt(pos, lo) THEN <<lo, RAbs(vel)>>
    ELSE IF RLt(hi, pos) THEN <<hi, RNeg(RAbs(vel))>>
    ELSE <<pos, vel>>

\* one axis of the final clamp: <<position, velocity>> after it
clamp_axis(pos, vel, lo, hi) ==
    IF RLt(pos, lo) THEN <<lo, RNeg(vel)>>
    ELSE IF RLt(hi, pos) THEN <<hi, RNeg(vel)>>
    ELSE <<pos, vel>>

\* the particle p with the outcomes ax, ay of the two axes
clamp_one(p, ax, ay) ==
    [p EXCEPT !.px = ax[1], !.vx = ax[2], !.py = ay[1], !.vy = ay[2]]

clamp_particles(ps, b) ==
    [k \in 1..Len(ps) |->
        clamp_one(ps[k],
                  clamp_axis(ps[k].px, ps[k].vx, x_min(ps[k], b), x_max(ps[k], b)),
                  clamp_axis(ps[k].py, ps[k].vy, y_min(ps[k], b), y_max(ps[k], b)))]

----------------------------------------------------------------------------
(* The recorder, simulator/src/miscs.rs, with --record all. *)

\* write_event_pair / write_event_wall: the CSV rows of the resolver's rows
write_events(rows, fr, ts) ==
    [k \in 1..Len(rows) |->
        [type |-> rows[k].type, frame |-> fr, time_s |-> RAdd(ts, rows[k].toi),
         toi |-> rows[k].toi, i |-> rows[k].i, j |-> rows[k].j,
         wall |-> rows[k].wall, nx |-> rows[k].nx, ny |-> rows[k].ny,
         before |-> rows[k].before, after |-> rows[k].after]]

\* write_particles_snapshot: one ParticleRow per particle
write_particles_snapshot(ps, fr, ts) ==
    [k \in 1..Len(ps) |->
        [frame |-> fr, time_s |-> ts, particle_id |-> k,
         x |-> ps[k].px, y |-> ps[k].py, vx |-> ps[k].vx, vy |-> ps[k].vy,
         radius |-> ps[k].radius, mass |-> ps[k].mass]]

\* the particles of ps whose velocity differs from that in qs
Changed(ps, qs) == {k \in 1..Len(ps) : ps[k].vx # qs[k].vx \/ ps[k].vy # qs[k].vy}

\* the velocity changes of one state change, each with the number of the
\* events row written for it (0: none)
ImpulsesOf(src, ps, qs, nrows, at) ==
    IF Changed(ps, qs) = {} THEN <<>>
    ELSE << [src |-> src, who |-> Changed(ps, qs),
             event |-> IF nrows > 0 THEN at + 1 ELSE 0] >>

----------------------------------------------------------------------------
(* The inputs of a run. *)

\* the frames a run is followed for
MaxFrames == 2
\* SPEED of main.rs (500 pixels per second), in units of 100 pixels
SPEED == 5

Methods == {"CellList", "Tccd", "SweptAabb"}

\* the window the run opens with
Arena == [width |-> Rat(16), height |-> Rat(8)]

\* the sizes the window is resized to between frames: with one particle, a
\* window as narrow as a unit disk; with two, one that leaves particles outside
StepBounds(n) ==
    IF n = 1 THEN {Arena, [width |-> Rat(2), height |-> Rat(8)]}
    ELSE {Arena, [width |-> Rat(8), height |-> Rat(8)]}

\* the frame times handed to step
DtSet == {Zero, <<1, 2>>}

\* --min-radius 1 --max-radius 3: radii in [1, 3)
RadiusSet == {Rat(1), Rat(2)}

\* rng.random_range(-0.9 * h..0.9 * h)
InRange(v, h) == RLe(RMul(<<-9, 10>>, h), v) /\ RLt(v, RMul(<<9, 10>>, h))

\* p.color = [rng.random(), 1.0, 0.5]: one hue for each index
Coloured(p, k) == [p EXCEPT !.color = <<Norm(k, 4), Rat(1), <<1, 2>>>>]

\* the states init may give particle k of n: a lone particle moves freely,
\* two particles move along x
InitParticles(n, k) ==
    {Coloured(Particle(Rat(x), Rat(y), Rat(vx), Rat(vy), r), k) :
        x \in IF n = 1 THEN {-6, 0, 6} ELSE IF k = 1 THEN {-6, -2} ELSE {2, 6},
        y \in IF n = 1 THEN {-2, 2} ELSE IF k = 1 THEN {0} ELSE {0, 2},
        vx \in {v \in IF n = 1 THEN {-2, 0, 2} ELSE {-4, 0, 4} : -SPEED <= v /\ v < SPEED},
        vy \in IF n = 1 THEN {-2, 0, 2} ELSE {0},
        r \in RadiusSet}

\* the particle vectors init may produce for n particles in a window b; two
\* particles on different rows are unit disks, which graze
InitStates(n, b) ==
    {ps \in [1..n -> UNION {InitParticles(n, k) : k \in 1..n}] :
        /\ \A k \in 1..n :
            /\ ps[k] \in InitParticles(n, k)
            /\ InRange(ps[k].px, half_extents(b)[1])
            /\ InRange(ps[k].py, half_extents(b)[2])
        /\ \A k \in 1..n : ps[k].py # ps[1].py =>
                              ps[k].radius = Rat(1) /\ ps[1].radius = Rat(1)}

DefaultParticle == Particle(Zero, Zero, Zero, Zero, Zero)

\* FrameWindow::new(frame)
FrameWindow(fr) == [frame |-> fr, time_s |-> Zero, particles |-> <<>>]

\* ValidationReport::default()
DefaultReport ==
    [initial_overlaps |-> <<>>, valid_collisions |-> 0, false_positives |-> <<>>,
     missed_collisions |-> <<>>, conservation_violations |-> <<>>,
     boundary_violations |-> <<>>]

\* BufferedParticleReader::new / BufferedEventReader::new
NewReader == [pos |-> 0, peeked |-> None]

NoCsv == [rows |-> <<>>, bad |-> 0]

\* no validation is running
ValidatorOff ==
    /\ particles_csv = NoCsv
    /\ events_csv = NoCsv
    /\ max_frame = 0
    /\ particle_stream = NewReader
    /\ event_stream = NewReader
    /\ prev_window = FrameWindow(0)
    /\ v_frame = 0
    /\ report = DefaultReport
    /\ v_pc = "off"
    /\ reads = <<>>
    /\ windows = <<>>

\* what the latest pass of solve's loop did; advanced is the sum of the
\* durations passed to advance_all since solve was called
NoToi == [kind |-> "none", time |-> Zero, dt_before |-> Zero,
          collision |-> Wall(0), rows |-> 0, advanced |-> Zero]

----------------------------------------------------------------------------
(* The run: construction, init, and one step per frame. *)

\* main: TCcdSim { particles: vec![Particle::default(); n], solver: Solver::new(..) }
Init ==
    /\ particles \in {<<DefaultParticle>>, <<DefaultParticle, DefaultParticle>>}
    /\ cells = [c \in {} |-> <<>>]
    /\ r_max = Zero
    /\ method \in Methods
    /\ bounds = [width |-> Zero, height |-> Zero]
    /\ dt0 = Zero
    /\ dt = Zero
    /\ iter = 0
    /\ pc = "new"
    /\ frame = 0
    /\ time_s = Zero
    /\ events = <<>>
    /\ snapshots = <<>>
    /\ start = particles
    /\ last = NoToi
    /\ impulses = <<>>
    /\ preclamp = particles
    /\ toi_sim = None
    /\ toi_val = None
    /\ ValidatorOff

\* TCcdSim::init(bounds)
init ==
    /\ pc = "new"
    /\ \E ps \in InitStates(Len(particles), Arena) :
          /\ particles' = ps
          /\ bounds' = Arena
          /\ frame' = frame + 1
          /\ snapshots' = Append(snapshots,
                                 write_particles_snapshot(ps, frame + 1, time_s))
          /\ start' = ps
          /\ preclamp' = ps
    /\ pc' = "idle"
    /\ UNCHANGED <<cells, r_max, method, dt0, dt, iter, time_s, events, last, impulses,
                   toi_sim, toi_val>>
    /\ UNCHANGED vvars

\* TCcdSim::step(dt, bounds) is called: solve begins its loop
StepCall ==
    /\ pc = "idle"
    /\ frame <= MaxFrames
    /\ \E b \in StepBounds(Len(particles)), d \in DtSet :
          /\ bounds' = b
          /\ dt0' = d
          /\ dt' = d
    /\ iter' = 0
    /\ pc' = "loop"
    /\ start' = particles
    /\ last' = NoToi
    /\ impulses' = <<>>
    /\ UNCHANGED <<particles, cells, r_max, method, frame, time_s, events,
                   snapshots, preclamp, toi_sim, toi_val>>
    /\ UNCHANGED vvars

\* the end of step for the particles ps solve's loop left: qs the particles
\* after clamp_particles, then frame, time_s and the frame's snapshot
FinishWith(ps, qs, imps) ==
    /\ preclamp' = ps
    /\ particles' = qs
    /\ impulses' = imps \o ImpulsesOf("clamp", ps, qs, 0, 0)
    /\ frame' = frame + 1
    /\ time_s' = RAdd(time_s, dt0)
    /\ snapshots' = Append(snapshots,
                           write_particles_snapshot(qs, frame + 1, RAdd(time_s, dt0)))
    /\ pc' = "idle"

Finish(ps, imps) == FinishWith(ps, clamp_particles(ps, bounds), imps)

\* a sub-iteration that leaves the loop without an event: dt <= EPS_T
SolveRest ==
    /\ pc = "loop"
    /\ loop_continues(iter)
    /\ LeEpsT(dt)
    /\ Finish(advance_all(particles, dt), impulses)
    /\ last' = [NoToi EXCEPT !.kind = "eps", !.dt_before = dt,
                             !.advanced = RAdd(last.advanced, dt)]
    /\ UNCHANGED <<cells, r_max, method, bounds, dt0, dt, iter, events, start,
                   toi_sim, toi_val>>
    /\ UNCHANGED vvars

\* a sub-iteration in which the detector finds nothing
SolveNone ==
    /\ pc = "loop"
    /\ loop_continues(iter)
    /\ ~LeEpsT(dt)
    /\ cells' = rebuild(particles)
    /\ find_min_toi(method, cells', r_max, particles, bounds, dt) = None
    /\ Finish(advance_all(particles, dt), impulses)
    /\ last' = [NoToi EXCEPT !.kind = "rest", !.dt_before = dt,
                             !.advanced = RAdd(last.advanced, dt)]
    /\ UNCHANGED <<r_max, method, bounds, dt0, dt, iter, events, start,
                   toi_sim, toi_val>>
    /\ UNCHANGED vvars

\* the Some(toi) arm after resolve_collision: moved the particles after
\* advance_all, res what resolve_collision made of them
Resolved(toi, moved, res) ==
    /\ events' = events \o write_events(res.rows, frame, time_s)
    /\ dt' = RSub(dt, toi.time)
    /\ iter' = iter + 1
    /\ last' = [kind |-> "event", time |-> toi.time, dt_before |-> dt,
                collision |-> toi.collision, rows |-> Len(res.rows),
                advanced |-> RAdd(last.advanced, toi.time)]
    /\ IF loop_continues(iter + 1)
       THEN /\ particles' = res.ps
            /\ impulses' = impulses \o ImpulsesOf(toi.collision.kind, moved, res.ps,
                                                  Len(res.rows), Len(events))
            /\ UNCHANGED <<pc, frame, time_s, snapshots, preclamp>>
       ELSE Finish(res.ps, impulses \o ImpulsesOf(toi.collision.kind, moved, res.ps,
                                                  Len(res.rows), Len(events)))

\* the Some(toi) arm: advance_all, then resolve_collision
Advanced(toi, moved) == Resolved(toi, moved, resolve_collision(moved, bounds, toi))

\* a sub-iteration that resolves the event the detector returns
SolveEvent ==
    /\ pc = "loop"
    /\ loop_continues(iter)
    /\ ~LeEpsT(dt)
    /\ cells' = rebuild(particles)
    /\ \E toi \in find_min_toi(method, cells', r_max, particles, bounds, dt) :
          Advanced(toi, advance_all(particles, toi.time))
    /\ UNCHANGED <<r_max, method, bounds, dt0, start, toi_sim, toi_val>>
    /\ UNCHANGED vvars

Next == init \/ StepCall \/ SolveRest \/ SolveNone \/ SolveEvent

Spec == Init /\ [][Next]_vars

----------------------------------------------------------------------------
(* Sanity of the arithmetic: every pair time the kernel returns in a       *)
(* reachable state is computed from a discriminant with a rational root,   *)
(* so no value of a run is rounded.                                        *)

PairDisc(p1, p2) ==
    p2p_disc(Dot(RSub(p2.vx, p1.vx), RSub(p2.vy, p1.vy),
                 RSub(p2.vx, p1.vx), RSub(p2.vy, p1.vy)),
             RMul(Rat(2), Dot(RSub(p2.px, p1.px), RSub(p2.py, p1.py),
                              RSub(p2.vx, p1.vx), RSub(p2.vy, p1.vy))),
             RSub(Dot(RSub(p2.px, p1.px), RSub(p2.py, p1.py),
                      RSub(p2.px, p1.px), RSub(p2.py, p1.py)),
                  RMul(RAdd(p1.radius, p2.radius), RAdd(p1.radius, p2.radius))))

ExactArithmetic ==
    pc = "loop" =>
        \A i \in 1..Len(particles), j \in 1..Len(particles) :
            (i < j /\ p2p_toi(particles[i], particles[j], dt) # None) =>
                /\ IsSquare(PairDisc(particles[i], particles[j])[1])
                /\ IsSquare(PairDisc(particles[i], particles[j])[2])

----------------------------------------------------------------------------
(* The pair kernels on their own: two particles and a time window drawn    *)
(* from a grid of inputs, handed to the simulator's and to the validator's *)
(* p2p_toi.                                                                *)

\* x and vx of the second particle; its y and vy are given in halves
KernelCoords == {-6, -4, -3, -2, -1, 0, 1, 2, 3, 4, 6}
KernelSpeeds == {-4, -2, -1, 0, 1, 2, 4}
KernelDts == {Zero, <<1, 2>>, Rat(1), Rat(3)}

\* the first particle rests at the origin or moves along x
KernelFirst == {Particle(Zero, Zero, Rat(vx), Zero, r) : vx \in {0, 2}, r \in RadiusSet}
KernelSecond ==
    {Particle(<<x, 1>>, Norm(y, 2), Rat(vx), Norm(vy, 2), r) :
        x \in KernelCoords, y \in {0, 2, 3, 6}, vx \in KernelSpeeds, vy \in {-3, 0},
        r \in RadiusSet}

\* the particles CSV row written for particle k of ps, as the validator reads it
RowOf(ps, k) == write_particles_snapshot(ps, 1, Zero)[k]

KernelInit ==
    /\ particles \in {<<p, q>> : p \in KernelFirst, q \in KernelSecond}
    /\ dt \in KernelDts
    /\ pc = "kernel"
    /\ cells = [c \in {} |-> <<>>]
    /\ r_max = Zero
    /\ method = "Tccd"
    /\ bounds = Arena
    /\ dt0 = dt
    /\ iter = 0
    /\ frame = 0
    /\ time_s = Zero
    /\ events = <<>>
    /\ snapshots = <<>>
    /\ start = particles
    /\ last = NoToi
    /\ impulses = <<>>
    /\ preclamp = particles
    /\ toi_sim = None
    /\ toi_val = None
    /\ ValidatorOff

\* both kernels are applied to the same two particles and window
KernelApply ==
    /\ pc = "kernel"
    /\ toi_sim' = p2p_toi(particles[1], particles[2], dt)
    /\ toi_val' = v_p2p_toi(ParticleState(RowOf(particles, 1)),
                            ParticleState(RowOf(particles, 2)), dt)
    /\ pc' = "kernel_done"
    /\ UNCHANGED <<particles, cells, r_max, method, bounds, dt0, dt, iter, frame,
                   time_s, events, snapshots, start, last, impulses, preclamp>>
    /\ UNCHANGED vvars

KernelNext == KernelApply

KernelSpec == KernelInit /\ [][KernelNext]_vars

----------------------------------------------------------------------------
(* The wall kernel on its own: one particle, bounds and a time window      *)
(* drawn from a grid of inputs, handed to boundary_toi.                    *)

BoundaryParticles ==
    {Particle(Rat(x), Rat(y), Rat(vx), Rat(vy), r) :
        x \in {-8, -7, -6, 0, 5, 6, 7}, y \in {-4, -3, -2, 0, 2, 3},
        vx \in {-4, -2, 0, 2, 4}, vy \in {-2, 0, 1, 2}, r \in RadiusSet}
BoundaryBounds == {Arena, [width |-> Rat(8), height |-> Rat(8)],
                   [width |-> Rat(2), height |-> Rat(8)]}

BoundaryInit ==
    /\ particles \in {<<p>> : p \in BoundaryParticles}
    /\ bounds \in BoundaryBounds
    /\ dt \in KernelDts
    /\ pc = "boundary"
    /\ cells = [c \in {} |-> <<>>]
    /\ r_max = Zero
    /\ method = "Tccd"
    /\ dt0 = dt
    /\ iter = 0
    /\ frame = 0
    /\ time_s = Zero
    /\ events = <<>>
    /\ snapshots = <<>>
    /\ start = particles
    /\ last = NoToi
    /\ impulses = <<>>
    /\ preclamp = particles
    /\ toi_sim = None
    /\ toi_val = None
    /\ ValidatorOff

\* boundary_toi is applied to the particle; toi_sim keeps what it returned
BoundaryApply ==
    /\ pc = "boundary"
    /\ toi_sim' = boundary_toi(particles[1], bounds, dt)
    /\ pc' = "boundary_done"
    /\ UNCHANGED <<particles, cells, r_max, method, bounds, dt0, dt, iter, frame,
                   time_s, events, snapshots, start, last, impulses, preclamp, toi_val>>
    /\ UNCHANGED vvars

BoundaryNext == BoundaryApply

BoundarySpec == BoundaryInit /\ [][BoundaryNext]_vars

----------------------------------------------------------------------------
(* Three particles on a line: the outer two move inward at equal speed     *)
(* toward the middle one, which rests; step is called on them frame by     *)
(* frame.                                                                  *)

\* the distance of the outer centres from the middle one, and their speed
LineDistances == {3, 4, 5}
LineSpeeds == {2, 4}

LineParticles ==
    {<<Particle(Rat(-d), Zero, Rat(s), Zero, Rat(1)),
       Particle(Zero, Zero, Zero, Zero, r),
       Particle(Rat(d), Zero, Rat(-s), Zero, Rat(1))>> :
        d \in LineDistances, s \in LineSpeeds, r \in RadiusSet}

\* the simulation after init, holding the three particles
LineInit ==
    /\ particles \in {ps \in LineParticles :
                        RLt(RAdd(ps[1].radius, ps[2].radius), ps[3].px)}
    /\ cells = [c \in {} |-> <<>>]
    /\ r_max = Zero
    /\ method \in Methods
    /\ bounds = Arena
    /\ dt0 = Zero
    /\ dt = Zero
    /\ iter = 0
    /\ pc = "idle"
    /\ frame = 1
    /\ time_s = Zero
    /\ events = <<>>
    /\ snapshots = <<write_particles_snapshot(particles, 1, Zero)>>
    /\ start = particles
    /\ last = NoToi
    /\ impulses = <<>>
    /\ preclamp = particles
    /\ toi_sim = None
    /\ toi_val = None
    /\ ValidatorOff

LineNext == StepCall \/ SolveRest \/ SolveNone \/ SolveEvent

LineSpec == LineInit /\ [][LineNext]_vars

----------------------------------------------------------------------------
(* The responses on their own: resolve_collision for a pair in contact and *)
(* for a particle at a wall, and clamp_particles, each applied once to     *)
(* particles drawn from a grid of inputs.                                  *)

\* the offset of the second centre from the first: contacts whose normal
\* has rational components, and coincident centres
PairOffsets == {<<5, 0>>, <<0, 5>>, <<3, 4>>, <<-4, 3>>, <<0, 0>>}
PairMasses == {1, 2, 4}
PairVelocities == {<<0, 0>>, <<2, 0>>, <<3, 4>>, <<-3, -4>>, <<-4, 3>>}

\* a particle of a mass chosen apart from its radius
Massive(p, m) == [p EXCEPT !.mass = Rat(m)]

PairInputs ==
    {<<Massive(Particle(Zero, Zero, Rat(v[1]), Rat(v[2]), Rat(2)), m1),
       Massive(Particle(Rat(o[1]), Rat(o[2]), Rat(w[1]), Rat(w[2]), Rat(3)), m2)>> :
        o \in PairOffsets, m1 \in PairMasses, m2 \in PairMasses,
        v \in PairVelocities, w \in PairVelocities}

\* the windows the responses are given: the arena, and one narrower than a
\* disk of radius 2
WallBounds == {Arena, [width |-> Rat(2), height |-> Rat(8)]}

\* a particle inside, on and beyond the edges of the arena
WallParticles ==
    {Particle(Rat(x), Rat(y), Rat(vx), Rat(vy), r) :
        x \in {-8, -7, 0, 7, 8}, y \in {-4, -3, 0, 3, 4},
        vx \in {-2, 0, 2}, vy \in {-2, 0, 2}, r \in RadiusSet}

\* the particle p has reached an edge of its interval in b
AtWall(p, b) ==
    \/ RLe(p.px, x_min(p, b)) \/ RLe(x_max(p, b), p.px)
    \/ RLe(p.py, y_min(p, b)) \/ RLe(y_max(p, b), p.py)

\* the second particle of a wall or clamp input: at rest inside, or outside
\* the arena and moving
Bystanders == {Particle(Zero, Zero, Zero, Zero, Rat(1)),
               Particle(Rat(9), Rat(-5), Rat(-2), Rat(2), Rat(1))}

ResolveInit ==
    /\ pc \in {"pair", "wall", "clamp"}
    /\ bounds \in IF pc = "pair" THEN {Arena} ELSE WallBounds
    /\ particles \in
          IF pc = "pair" THEN PairInputs
          ELSE {<<p, q>> : p \in {w \in WallParticles : pc = "wall" => AtWall(w, bounds)},
                           q \in Bystanders}
    /\ cells = [c \in {} |-> <<>>]
    /\ r_max = Zero
    /\ method = "Tccd"
    /\ dt0 = Zero
    /\ dt = Zero
    /\ iter = 0
    /\ frame = 1
    /\ time_s = Zero
    /\ events = <<>>
    /\ snapshots = <<>>
    /\ start = particles
    /\ last = NoToi
    /\ impulses = <<>>
    /\ preclamp = particles
    /\ toi_sim = None
    /\ toi_val = None
    /\ ValidatorOff

\* resolve_collision has returned: the particles and the rows of res
Responded(res) ==
    /\ particles' = res.ps
    /\ events' = events \o write_events(res.rows, frame, time_s)

\* resolve_collision(particles, bounds, Pair(0, 1))
PairApply ==
    /\ pc = "pair"
    /\ Responded(resolve_collision(particles, bounds, Toi(Zero, Pair(1, 2))))
    /\ pc' = "pair_done"
    /\ UNCHANGED <<cells, r_max, method, bounds, dt0, dt, iter, frame, time_s,
                   snapshots, start, last, impulses, preclamp, toi_sim, toi_val>>
    /\ UNCHANGED vvars

\* resolve_collision(particles, bounds, Wall(0))
WallApply ==
    /\ pc = "wall"
    /\ Responded(resolve_collision(particles, bounds, Toi(Zero, Wall(1))))
    /\ pc' = "wall_done"
    /\ UNCHANGED <<cells, r_max, method, bounds, dt0, dt, iter, frame, time_s,
                   snapshots, start, last, impulses, preclamp, toi_sim, toi_val>>
    /\ UNCHANGED vvars

\* clamp_particles(particles, bounds)
ClampApply ==
    /\ pc = "clamp"
    /\ particles' = clamp_particles(particles, bounds)
    /\ pc' = "clamp_done"
    /\ UNCHANGED <<cells, r_max, method, bounds, dt0, dt, iter, frame, time_s, events,
                   snapshots, start, last, impulses, preclamp, toi_sim, toi_val>>
    /\ UNCHANGED vvars

ResolveNext == PairApply \/ WallApply \/ ClampApply

ResolveSpec == ResolveInit /\ [][ResolveNext]_vars

----------------------------------------------------------------------------
(* The grid queries on their own: one moving particle among two resting    *)
(* ones, spread over the plane; the grid is rebuilt and the detector run   *)
(* once.                                                                   *)

GridDts == {<<1, 2>>, Rat(1)}

\* the moving particle: positions inside a cell, on a cell edge and on a
\* cell corner
GridMovers ==
    {Particle(Norm(x, 2), Norm(y, 2), Rat(v[1]), Rat(v[2]), r) :
        x \in {-5, 0, 1}, y \in {-2, 1},
        v \in {<<0, 0>>, <<4, 0>>, <<0, -4>>, <<4, 4>>, <<-4, 2>>, <<2, 6>>, <<-6, -2>>},
        r \in RadiusSet}

\* the resting particles
GridRests ==
    {Particle(Rat(x), Rat(y), Zero, Zero, Rat(1)) :
        x \in {-4, 0, 3, 5}, y \in {-3, 0, 3}}

\* the moving particle takes each of the three indices
GridParticles ==
    {<<a, b, c>> : a \in GridMovers, b \in GridRests,
                   c \in {Particle(Rat(5), Rat(-3), Zero, Zero, Rat(1)),
                          Particle(Zero, Rat(3), Zero, Zero, Rat(1))}}
    \cup {<<b, a, c>> : a \in GridMovers, b \in {Particle(Rat(3), Rat(3), Zero, Zero, Rat(1))},
                        c \in GridRests}
    \cup {<<b, c, a>> : a \in GridMovers, b \in {Particle(Rat(-4), Zero, Zero, Zero, Rat(1))},
                        c \in {Particle(Rat(5), Rat(-3), Zero, Zero, Rat(1))}}

\* the solver before a query: the grid still holds the cells of an earlier
\* rebuild
GridInit ==
    /\ particles \in GridParticles
    /\ dt \in GridDts
    /\ method \in Methods
    /\ pc = "grid"
    /\ cells = (<<9, 9>> :> <<1, 2, 3>>)
    /\ r_max = Zero
    /\ bounds = Arena
    /\ dt0 = dt
    /\ iter = 0
    /\ frame = 1
    /\ time_s = Zero
    /\ events = <<>>
    /\ snapshots = <<>>
    /\ start = particles
    /\ last = NoToi
    /\ impulses = <<>>
    /\ preclamp = particles
    /\ toi_sim = None
    /\ toi_val = None
    /\ ValidatorOff

\* grid.rebuild(particles), then detector.find_min_toi(grid, particles, bounds, dt)
GridQuery ==
    /\ pc = "grid"
    /\ cells' = rebuild(particles)
    /\ \/ /\ find_min_toi(method, cells', r_max, particles, bounds, dt) = None
          /\ last' = [NoToi EXCEPT !.kind = "rest", !.dt_before = dt]
       \/ \E toi \in find_min_toi(method, cells', r_max, particles, bounds, dt) :
             last' = [kind |-> "event", time |-> toi.time, dt_before |-> dt,
                      collision |-> toi.collision, rows |-> 0, advanced |-> Zero]
    /\ pc' = "grid_done"
    /\ UNCHANGED <<particles, r_max, method, bounds, dt0, dt, iter, frame, time_s,
                   events, snapshots, start, impulses, preclamp, toi_sim, toi_val>>
    /\ UNCHANGED vvars

GridNext == GridQuery

GridSpec == GridInit /\ [][GridNext]_vars

----------------------------------------------------------------------------
(* The validator, validate/src: the two buffered readers, the checks of a  *)
(* frame pair, and validate's loop over the frames.                        *)

\* --tolerance, default 1e-5
tolerance == <<1, 100000>>

\* --size: Boundary::new(-half, half) of the window
Boundary == Arena

\* window.particles.insert(row.particle_id, ParticleState::from(row))
p_insert(window, row) ==
    [window EXCEPT !.particles = (row.particle_id :> ParticleState(row)) @@ @]

\* what read_frame returns, with the reader's state after it
ReadResult(err, out, pos, peeked) ==
    [err |-> err, out |-> out, stream |-> [pos |-> pos, peeked |-> peeked]]

RECURSIVE p_scan_forgetting(_, _, _, _)
p_scan_forgetting(csv, fr, k, window) ==
    IF k > Len(csv.rows) THEN ReadResult(FALSE, window, Len(csv.rows), None)
    ELSE IF k = csv.bad THEN ReadResult(TRUE, window, k, None)
    ELSE IF csv.rows[k].frame = fr
         THEN p_scan_forgetting(csv, fr, k + 1,
                 p_insert([window EXCEPT !.time_s = csv.rows[k].time_s], csv.rows[k]))
    ELSE IF csv.rows[k].frame < fr THEN p_scan_forgetting(csv, fr, k + 1, window)
    ELSE ReadResult(FALSE, window, k, None)

\* BufferedParticleReader::read_frame, `for result in self.reader.deserialize()`
\* from row k on
RECURSIVE p_scan(_, _, _, _)
p_scan(csv, fr, k, window) ==
    IF k > Len(csv.rows) THEN ReadResult(FALSE, window, Len(csv.rows), None)
    ELSE IF k = csv.bad THEN ReadResult(TRUE, window, k, None)
    ELSE IF csv.rows[k].frame = fr
         THEN p_scan(csv, fr, k + 1,
                     p_insert([window EXCEPT !.time_s = csv.rows[k].time_s], csv.rows[k]))
    ELSE IF csv.rows[k].frame < fr THEN p_scan(csv, fr, k + 1, window)
    ELSE ReadResult(FALSE, window, k, Some(csv.rows[k]))

\* BufferedParticleReader::read_frame
p_read_frame(csv, stream, fr) ==
    IF stream.peeked = None THEN p_scan(csv, fr, stream.pos + 1, FrameWindow(fr))
    ELSE IF Get(stream.peeked).frame = fr
         THEN p_scan(csv, fr, stream.pos + 1, p_insert(FrameWindow(fr), Get(stream.peeked)))
    ELSE ReadResult(FALSE, FrameWindow(fr), stream.pos, stream.peeked)

\* BufferedEventReader::read_frame, `for result in self.reader.deserialize()`
\* from row k on
RECURSIVE e_scan(_, _, _, _)
e_scan(csv, fr, k, evs) ==
    IF k > Len(csv.rows) THEN ReadResult(FALSE, evs, Len(csv.rows), None)
    ELSE IF k = csv.bad THEN ReadResult(TRUE, evs, k, None)
    ELSE IF csv.rows[k].frame = fr THEN e_scan(csv, fr, k + 1, Append(evs, csv.rows[k]))
    ELSE IF csv.rows[k].frame < fr THEN e_scan(csv, fr, k + 1, evs)
    ELSE ReadResult(FALSE, evs, k, Some(csv.rows[k]))

\* BufferedEventReader::read_frame
e_read_frame(csv, stream, fr) ==
    IF stream.peeked = None THEN e_scan(csv, fr, stream.pos + 1, <<>>)
    ELSE IF Get(stream.peeked).frame = fr
         THEN e_scan(csv, fr, stream.pos + 1, <<Get(stream.peeked)>>)
    ELSE IF Get(stream.peeked).frame > fr
         THEN ReadResult(FALSE, <<>>, stream.pos, stream.peeked)
    ELSE e_scan(csv, fr, stream.pos + 1, <<>>)

\* the elasticity test of a Pair event
ve_elastic(e) ==
    IF RLt(RMul(tolerance, RMax(RAbs(e.before), Rat(1))),
           RAbs(RSub(e.after, RNeg(e.before))))
    THEN Some("NotElastic") ELSE None

\* the normal test of a Pair event, n_hat = (i_pos - j_pos).normalize()
ve_normal(e, hx, hy) ==
    IF RLt(RAbs(Dot(hx, hy, e.nx, e.ny)), RSub(Rat(1), tolerance))
    THEN Some("WrongNormal") ELSE ve_elastic(e)

\* the contact test of a Pair event
ve_contact(e, dx, dy, dist, contact_dist) ==
    IF RLt(tolerance, RAbs(RDiv(RSub(dist, contact_dist), contact_dist)))
    THEN Some("NotTouching")
    ELSE ve_normal(e, RDiv(dx, dist), RDiv(dy, dist))

ve_pair(e, dx, dy, contact_dist) ==
    ve_contact(e, dx, dy, RSqrt(Dot(dx, dy, dx, dy)), contact_dist)

ve_wall_relative(e) ==
    IF RLt(RMul(tolerance, RMax(RAbs(e.before), Rat(1))),
           RAbs(RSub(e.after, RNeg(e.before))))
    THEN Some("NotElastic") ELSE None

ve_wall(e) ==
    IF RLt(tolerance, RAbs(RSub(e.after, RNeg(e.before))))
    THEN Some("NotElastic") ELSE None

\* validate_event: None for Ok(()), Some(error) for Err(error)
validate_event(e, window) ==
    IF e.type = "Wall" THEN ve_wall(e)
    ELSE IF e.i \notin DOMAIN window.particles \/ e.j \notin DOMAIN window.particles
         THEN Some("ParticleNotFound")
    ELSE ve_pair(e, RSub(e.ix, e.jx), RSub(e.iy, e.jy),
                 RAdd(window.particles[e.i].radius, window.particles[e.j].radius))

\* validate_frame's loop over the events, from event k on
RECURSIVE check_events(_, _, _, _)
check_events(evs, k, window, rep) ==
    IF k > Len(evs) THEN rep
    ELSE check_events(evs, k + 1, window,
            IF validate_event(evs[k], window) = None
            THEN [rep EXCEPT !.valid_collisions = @ + 1]
            ELSE [rep EXCEPT !.false_positives =
                     Append(@, [frame |-> window.frame,
                                error |-> Get(validate_event(evs[k], window))])])

\* a set of numbers as the sequence of its elements in increasing order
RECURSIVE Ascending(_)
Ascending(S) ==
    IF S = {} THEN <<>>
    ELSE <<CHOOSE x \in S : \A y \in S : x <= y>>
         \o Ascending(S \ {CHOOSE x \in S : \A y \in S : x <= y})

\* events.iter().any(|e| matches!(e, Pair { i: ei, j: ej, .. } if ...))
was_reported(evs, i, j) ==
    \E k \in 1..Len(evs) :
        /\ evs[k].type = "Pair"
        /\ \/ evs[k].i = i /\ evs[k].j = j
           \/ evs[k].i = j /\ evs[k].j = i

\* particle ids are below IdSpan; a pair (i, j) is coded as i * IdSpan + j
IdSpan == 4

\* the pairs i < j of keys of curr with a pair TOI that no event reports
MissedCodes(curr, evs, dtw) ==
    {c \in {i * IdSpan + j : i, j \in DOMAIN curr.particles} :
        /\ (c \div IdSpan) < (c % IdSpan)
        /\ v_p2p_toi(curr.particles[c \div IdSpan], curr.particles[c % IdSpan], dtw) # None
        /\ ~was_reported(evs, c \div IdSpan, c % IdSpan)}

\* missed.push(MissedCollision { frame: next.frame, i, j, .., toi })
missed_record(curr, next, dtw, i, j) ==
    [frame |-> next.frame, i |-> i, j |-> j,
     toi |-> Get(v_p2p_toi(curr.particles[i], curr.particles[j], dtw))]

missed_seq(curr, next, dtw, codes) ==
    [k \in 1..Len(codes) |->
        missed_record(curr, next, dtw, codes[k] \div IdSpan, codes[k] % IdSpan)]

\* find_missed_collisions: the keys of curr.particles are walked in the
\* order the HashMap gives them; here, in increasing order
find_missed_collisions(curr, next, evs, dtw) ==
    missed_seq(curr, next, dtw, Ascending(MissedCodes(curr, evs, dtw)))

\* Boundary::contains
contains(b, p) ==
    /\ RLe(x_min(p, b), p.px) /\ RLe(p.px, x_max(p, b))
    /\ RLe(y_min(p, b), p.py) /\ RLe(p.py, y_max(p, b))

boundary_seq(window, ids) ==
    [k \in 1..Len(ids) |-> [frame |-> window.frame, id |-> ids[k]]]

\* check_boundaries
check_boundaries(window, rep) ==
    [rep EXCEPT !.boundary_violations =
        @ \o boundary_seq(window, Ascending({i \in DOMAIN window.particles :
                                               ~contains(Boundary, window.particles[i])}))]

\* compute_totals, from the k-th of the ids on: <<ke, px, py>>
RECURSIVE totals_from(_, _, _, _)
totals_from(ps, ids, k, acc) ==
    IF k > Len(ids) THEN acc
    ELSE totals_from(ps, ids, k + 1,
            <<RAdd(acc[1], RMul(RMul(<<1, 2>>, ps[ids[k]].mass),
                                Dot(ps[ids[k]].vx, ps[ids[k]].vy,
                                    ps[ids[k]].vx, ps[ids[k]].vy))),
              RAdd(acc[2], RMul(ps[ids[k]].mass, ps[ids[k]].vx)),
              RAdd(acc[3], RMul(ps[ids[k]].mass, ps[ids[k]].vy))>>)

compute_totals(ps) == totals_from(ps, Ascending(DOMAIN ps), 1, <<Zero, Zero, Zero>>)

\* 0.0 / 0.0
NaN == <<0, 0>>

\* (a / b).abs() in f32: a quotient by zero is infinite, or NaN for 0/0
abs_quotient(a, b) ==
    IF b = Zero THEN (IF a = Zero THEN NaN ELSE INFINITY) ELSE RAbs(RDiv(a, b))

\* error > self.tolerance
exceeds(err) == err # NaN /\ (err = INFINITY \/ RLt(tolerance, err))

\* px_prev.abs().max(1e-6)
momentum_floor(p) == RMax(RAbs(p), <<1, 1000000>>)

conservation_record(next, energy_error, x_error, y_error, rep) ==
    IF exceeds(energy_error) \/ exceeds(x_error) \/ exceeds(y_error)
    THEN [rep EXCEPT !.conservation_violations =
             Append(@, [frame |-> next.frame, energy_error |-> energy_error,
                        x_error |-> x_error, y_error |-> y_error])]
    ELSE rep

conservation_errors(next, prev_t, curr_t, rep) ==
    conservation_record(next,
        abs_quotient(RSub(curr_t[1], prev_t[1]), prev_t[1]),
        abs_quotient(RSub(curr_t[2], prev_t[2]), momentum_floor(prev_t[2])),
        abs_quotient(RSub(curr_t[3], prev_t[3]), momentum_floor(prev_t[3])), rep)

\* check_conservation
check_conservation(curr, next, rep) ==
    conservation_errors(next, compute_totals(curr.particles),
                        compute_totals(next.particles), rep)

\* the pairs i < j of a window closer than the sum of their radii less the
\* tolerance
OverlapCodes(window) ==
    {c \in {i * IdSpan + j : i, j \in DOMAIN window.particles} :
        /\ (c \div IdSpan) < (c % IdSpan)
        /\ RLt(RSqrt(Dot(RSub(window.particles[c \div IdSpan].px,
                              window.particles[c % IdSpan].px),
                         RSub(window.particles[c \div IdSpan].py,
                              window.particles[c % IdSpan].py),
                         RSub(window.particles[c \div IdSpan].px,
                              window.particles[c % IdSpan].px),
                         RSub(window.particles[c \div IdSpan].py,
                              window.particles[c % IdSpan].py))),
               RSub(RAdd(window.particles[c \div IdSpan].radius,
                         window.particles[c % IdSpan].radius), tolerance))}

overlap_seq(window, codes) ==
    [k \in 1..Len(codes) |->
        [frame |-> window.frame, i |-> codes[k] \div IdSpan, j |-> codes[k] % IdSpan]]

\* check_initial_overlaps
check_initial_overlaps(window, rep) ==
    [rep EXCEPT !.initial_overlaps =
        @ \o overlap_seq(window, Ascending(OverlapCodes(window)))]

add_missed(rep, missed) == [rep EXCEPT !.missed_collisions = @ \o missed]

\* validate_frame
validate_frame(prev, curr, evs, dtw, rep) ==
    check_conservation(prev, curr,
        check_boundaries(curr,
            add_missed(check_events(evs, 1, prev, rep),
                       find_missed_collisions(prev, curr, evs, dtw))))

----------------------------------------------------------------------------
(* The traces handed to validate. *)

\* the particle vectors a snapshot of a trace may hold: two particles
\* approaching along x (radii 1 and r), after their elastic bounce, after
\* passing through each other, at rest, one particle alone, and three
\* particles of which the outer two approach
Approach(r) == <<Particle(Rat(-3), Zero, Rat(4), Zero, Rat(1)),
                 Particle(Rat(3), Zero, Rat(-4), Zero, r)>>
BouncedEqual == <<Particle(Rat(-1), Zero, Rat(-4), Zero, Rat(1)),
                  Particle(Rat(1), Zero, Rat(4), Zero, Rat(1))>>
BouncedUnequal == <<Particle(<<-13, 5>>, Zero, <<-44, 5>>, Zero, Rat(1)),
                    Particle(<<7, 5>>, Zero, <<-4, 5>>, Zero, Rat(2))>>
Tunnelled(r) == <<Particle(Rat(-1), Zero, Rat(4), Zero, Rat(1)),
                  Particle(Rat(1), Zero, Rat(-4), Zero, r)>>
AtRest == <<Particle(Rat(-3), Zero, Zero, Zero, Rat(1)),
            Particle(Rat(3), Zero, Zero, Zero, Rat(1))>>
Alone(x) == <<Particle(Rat(x), Zero, Rat(4), Zero, Rat(1))>>
Three == <<Particle(Rat(-3), Zero, Rat(4), Zero, Rat(1)),
           Particle(Zero, Rat(3), Zero, Zero, Rat(1)),
           Particle(Rat(3), Zero, Rat(-4), Zero, Rat(1))>>
\* a snapshot of the three of which the last row was lost with the file's tail
ThreeCut == <<Particle(Rat(-1), Zero, Rat(4), Zero, Rat(1)),
              Particle(Zero, Rat(3), Zero, Zero, Rat(1))>>

\* the snapshots of three frames of a run
Stories ==
    {<<Approach(Rat(1)), BouncedEqual, Approach(Rat(1))>>,
     <<Approach(Rat(2)), BouncedUnequal, Tunnelled(Rat(2))>>,
     <<Approach(Rat(1)), Tunnelled(Rat(1)), BouncedEqual>>,
     <<Tunnelled(Rat(2)), Approach(Rat(2)), Alone(-1)>>,
     <<Approach(Rat(1)), Alone(-1), Alone(1)>>,
     <<AtRest, AtRest, Approach(Rat(1))>>,
     <<Three, ThreeCut, ThreeCut>>,
     <<Alone(5), Alone(7), Alone(9)>>}

\* the frame numbers of the snapshots of a trace
Numberings == {<<>>, <<1>>, <<1, 2>>, <<2, 3>>, <<1, 3>>, <<1, 2, 3>>, <<1, 2, 4>>}

\* the frame time of the traces
TraceDt == <<1, 2>>

\* the rows of the particles CSV of the first k snapshots of a story
RECURSIVE TraceRows(_, _, _)
TraceRows(story, numbering, k) ==
    IF k = 0 THEN <<>>
    ELSE TraceRows(story, numbering, k - 1)
         \o write_particles_snapshot(story[k], numbering[k],
                                     RMul(Rat(numbering[k] - 1), TraceDt))

ParticleCsvs ==
    {[rows |-> TraceRows(story, numbering, Len(numbering)), bad |-> bad] :
        story \in Stories, numbering \in Numberings, bad \in {0, 2, 4}}

\* an event row of the events CSV as the validator parses it
EventRow(type, i, j, ix, jx, nx, ny, before, after) ==
    [type |-> type, frame |-> 0, time_s |-> Zero, toi |-> Zero, i |-> i, j |-> j,
     wall |-> IF type = "Wall" THEN "right" ELSE "",
     ix |-> ix, iy |-> Zero, jx |-> jx, jy |-> Zero, nx |-> nx, ny |-> ny,
     before |-> before, after |-> after]

\* events of the contact of two unit disks at x = -1 and x = 1: as the
\* solver resolves it, named in the other order, with positions too far
\* apart, with a normal across the line of centres, with too little
\* rebound, with a rebound off by less than the relative tolerance allows,
\* and with a particle that is in no frame; and wall events with a full
\* rebound, with a weak one, and with one off by more than the tolerance
EventKinds ==
    {EventRow("Pair", 1, 2, Rat(-1), Rat(1), Rat(1), Zero, Rat(-8), Rat(8)),
     EventRow("Pair", 2, 1, Rat(1), Rat(-1), Rat(-1), Zero, Rat(-8), Rat(8)),
     EventRow("Pair", 1, 2, Rat(-2), Rat(1), Rat(1), Zero, Rat(-8), Rat(8)),
     EventRow("Pair", 1, 2, Rat(-1), Rat(1), Zero, Rat(1), Rat(-8), Rat(8)),
     EventRow("Pair", 1, 2, Rat(-1), Rat(1), Rat(1), Zero, Rat(-8), Rat(4)),
     EventRow("Pair", 1, 2, Rat(-1), Rat(1), Rat(1), Zero, Rat(-8), <<160001, 20000>>),
     EventRow("Pair", 1, 3, Rat(-1), Rat(1), Rat(1), Zero, Rat(-8), Rat(8)),
     EventRow("Wall", 1, 0, Rat(7), Zero, Rat(1), Zero, Rat(4), Rat(-4)),
     EventRow("Wall", 1, 0, Rat(7), Zero, Rat(1), Zero, Rat(4), Rat(-2)),
     EventRow("Wall", 1, 0, Rat(7), Zero, Rat(1), Zero, Rat(8), <<-159999, 20000>>)}

\* the frames written on the rows of an events CSV, in increasing order
EventFrames == {<<>>, <<1>>, <<2>>, <<3>>, <<1, 2>>, <<2, 2>>, <<2, 3>>, <<3, 4>>}

EventCsvs ==
    {[rows |-> [k \in 1..Len(frames) |->
                   [(IF k = 1 THEN first ELSE second) EXCEPT !.frame = frames[k]]],
      bad |-> bad] :
        first \in EventKinds,
        second \in {e \in EventKinds : e.i = 2 \/ e.type = "Wall"},
        frames \in EventFrames, bad \in {0, 1}}

MaxFrameSet == {1, 3, 5}

\* no simulation is running
SimulationOff ==
    /\ particles = <<>>
    /\ cells = [c \in {} |-> <<>>]
    /\ r_max = Zero
    /\ method = "Tccd"
    /\ bounds = Arena
    /\ dt0 = Zero
    /\ dt = Zero
    /\ iter = 0
    /\ pc = "off"
    /\ frame = 0
    /\ time_s = Zero
    /\ events = <<>>
    /\ snapshots = <<>>
    /\ start = <<>>
    /\ last = NoToi
    /\ impulses = <<>>
    /\ preclamp = <<>>
    /\ toi_sim = None
    /\ toi_val = None

\* main: StreamingValidator::default().with_boundary(..).with_max_frame(..)
\*       .with_tolerance(..), and the two CSV files
ValidatorInit ==
    /\ SimulationOff
    /\ particles_csv \in ParticleCsvs
    /\ events_csv \in EventCsvs
    /\ max_frame \in MaxFrameSet
    /\ particle_stream = NewReader
    /\ event_stream = NewReader
    /\ prev_window = FrameWindow(0)
    /\ v_frame = 0
    /\ report = DefaultReport
    /\ v_pc = "start"
    /\ reads = <<>>
    /\ windows = <<>>

\* what a read_frame call was asked and what it gave
ReadOf(reader, fr, res) == [reader |-> reader, frame |-> fr, out |-> res.out]

FirstFrame_accepting_empty(res) ==
    /\ particle_stream' = res.stream
    /\ reads' = Append(reads, ReadOf("particles", 1, res))
    /\ IF res.err THEN v_pc' = "err_parse" /\ UNCHANGED <<prev_window, v_frame, report>>
       ELSE /\ prev_window' = res.out
            /\ v_frame' = 2
            /\ report' = check_initial_overlaps(res.out, DefaultReport)
            /\ v_pc' = "loop"

\* validate up to the loop, for res the result of particle_stream.read_frame(1)
FirstFrame(res) ==
    /\ particle_stream' = res.stream
    /\ reads' = Append(reads, ReadOf("particles", 1, res))
    /\ IF res.err THEN v_pc' = "err_parse" /\ UNCHANGED <<prev_window, v_frame, report>>
       ELSE IF DOMAIN res.out.particles = {}
            THEN v_pc' = "err_empty" /\ UNCHANGED <<prev_window, v_frame, report>>
       ELSE /\ prev_window' = res.out
            /\ v_frame' = 2
            /\ report' = check_initial_overlaps(res.out, DefaultReport)
            /\ v_pc' = "loop"

\* validate is called: frame 1 is read
ValidateFirst ==
    /\ v_pc = "start"
    /\ FirstFrame(p_read_frame(particles_csv, particle_stream, 1))
    /\ UNCHANGED <<particles_csv, events_csv, max_frame, event_stream, windows>>
    /\ UNCHANGED svars

\* the loop's body from event_stream.read_frame(frame) on, for curr the
\* window of the frame and res the result of reading the frame's events
FrameEvents(curr, res) ==
    /\ event_stream' = res.stream
    /\ reads' = reads \o <<[reader |-> "particles", frame |-> v_frame, out |-> curr],
                           ReadOf("events", v_frame, res)>>
    /\ IF res.err THEN v_pc' = "err_parse" /\ UNCHANGED <<prev_window, v_frame, report, windows>>
       ELSE /\ report' = validate_frame(prev_window, curr, res.out,
                                        RSub(curr.time_s, prev_window.time_s), report)
            /\ windows' = Append(windows,
                                 [prev |-> prev_window, curr |-> curr, events |-> res.out,
                                  dt |-> RSub(curr.time_s, prev_window.time_s)])
            /\ prev_window' = curr
            /\ v_frame' = v_frame + 1
            /\ v_pc' = "loop"

\* a pass of the loop that finds the frame's particles: the frame is checked
\* against the one before it
ValidateFrame ==
    /\ v_pc = "loop"
    /\ v_frame <= max_frame
    /\ ~p_read_frame(particles_csv, particle_stream, v_frame).err
    /\ DOMAIN p_read_frame(particles_csv, particle_stream, v_frame).out.particles # {}
    /\ particle_stream' = p_read_frame(particles_csv, particle_stream, v_frame).stream
    /\ FrameEvents(p_read_frame(particles_csv, particle_stream, v_frame).out,
                   e_read_frame(events_csv, event_stream, v_frame))
    /\ UNCHANGED <<particles_csv, events_csv, max_frame>>
    /\ UNCHANGED svars

\* a pass of the loop that finds no particles of the frame, or a row that
\* does not parse
ValidateStop ==
    /\ v_pc = "loop"
    /\ v_frame <= max_frame
    /\ \/ p_read_frame(particles_csv, particle_stream, v_frame).err
       \/ DOMAIN p_read_frame(particles_csv, particle_stream, v_frame).out.particles = {}
    /\ particle_stream' = p_read_frame(particles_csv, particle_stream, v_frame).stream
    /\ reads' = Append(reads, ReadOf("particles", v_frame,
                                     p_read_frame(particles_csv, particle_stream, v_frame)))
    /\ IF p_read_frame(particles_csv, particle_stream, v_frame).err
       THEN v_pc' = "err_parse" /\ UNCHANGED max_frame
       ELSE v_pc' = "ok" /\ max_frame' = v_frame - 1
    /\ UNCHANGED <<particles_csv, events_csv, event_stream, prev_window, v_frame,
                   report, windows>>
    /\ UNCHANGED svars

\* `while frame <= self.max_frame` fails: the report is returned
ValidateEnd ==
    /\ v_pc = "loop"
    /\ v_frame > max_frame
    /\ v_pc' = "ok"
    /\ UNCHANGED <<particles_csv, events_csv, max_frame, particle_stream, event_stream,
                   prev_window, v_frame, report, reads, windows>>
    /\ UNCHANGED svars

ValidatorNext == ValidateFirst \/ ValidateFrame \/ ValidateStop \/ ValidateEnd

ValidatorSpec == ValidatorInit /\ [][ValidatorNext]_vars

----------------------------------------------------------------------------
(* What the claims speak of. *)

\* step has returned: solve ran, the clamp closed it, the snapshot is written
Returned == pc = "idle" /\ last.kind # "none"

\* 2 * radius <= width and 2 * radius <= height
Fits(p, b) ==
    RLe(RMul(Rat(2), p.radius), b.width) /\ RLe(RMul(Rat(2), p.radius), b.height)

\* x in [-w/2 + r, w/2 - r] and y in [-h/2 + r, h/2 - r]
InInterval(p, b) ==
    /\ RLe(x_min(p, b), p.px) /\ RLe(p.px, x_max(p, b))
    /\ RLe(y_min(p, b), p.py) /\ RLe(p.py, y_max(p, b))

RECURSIVE KineticEnergy(_)
\* the sum of 1/2 * m * |v|^2
KineticEnergy(ps) ==
    IF ps = <<>> THEN Zero
    ELSE RAdd(RMul(<<1, 2>>, RMul(Head(ps).mass,
                                  Dot(Head(ps).vx, Head(ps).vy, Head(ps).vx, Head(ps).vy))),
              KineticEnergy(Tail(ps)))

RECURSIVE MomentumX(_)
\* the sum of m * vx
MomentumX(ps) ==
    IF ps = <<>> THEN Zero
    ELSE RAdd(RMul(Head(ps).mass, Head(ps).vx), MomentumX(Tail(ps)))

RECURSIVE MomentumY(_)
\* the sum of m * vy
MomentumY(ps) ==
    IF ps = <<>> THEN Zero
    ELSE RAdd(RMul(Head(ps).mass, Head(ps).vy), MomentumY(Tail(ps)))

\* the relative tolerance 1e-4
Tol == <<1, 10000>>

\* a and b agree within the relative tolerance
RelClose(a, b) == RLe(RAbs(RSub(a, b)), RMul(Tol, RMax(RAbs(a), RAbs(b))))

\* the velocity changes of the latest step made by source src
ImpulsesBy(src) == {k \in 1..Len(impulses) : impulses[k].src = src}

\* the newest row of the events CSV
LastEvent == events[Len(events)]

\* the rows of the events CSV written by the running (or latest) step
StepEvents ==
    {k \in 1..Len(events) :
        events[k].frame = IF pc = "loop" THEN frame ELSE frame - 1}

----------------------------------------------------------------------------
(* C1 *)

\* C1: whenever solve has returned, whatever dt was, however many events
\* were resolved and also when the 100 sub-iterations were used up, every
\* particle whose diameter fits the bounds lies in its clamped interval.
C1_ClampedInterval ==
    Returned =>
        \A k \in 1..Len(particles) :
            Fits(particles[k], bounds) => InInterval(particles[k], bounds)

\* solve returned after its loop left a fitting particle outside its
\* interval: the clamp moved it
C1_Witness ==
    /\ Returned
    /\ \E k \in 1..Len(particles) :
          /\ Fits(particles[k], bounds)
          /\ ~InInterval(preclamp[k], bounds)
          /\ InInterval(particles[k], bounds)

----------------------------------------------------------------------------
(* C2 *)

\* C2 as stated: over any step, the total kinetic energy and both
\* components of the total linear momentum are the same before and after,
\* within the relative tolerance, whatever events and clamps occurred.
C2_Original ==
    Returned =>
        /\ RelClose(KineticEnergy(start), KineticEnergy(particles))
        /\ RelClose(MomentumX(start), MomentumX(particles))
        /\ RelClose(MomentumY(start), MomentumY(particles))

\* C2 amended: over any step the total kinetic energy is the same before
\* and after; the total linear momentum is the same over a step in which
\* no wall response and no clamp changed a velocity (pair impulses
\* conserve it, a wall response or a clamp negates a component).
C2_EnergyAndPairMomentum ==
    Returned =>
        /\ RelClose(KineticEnergy(start), KineticEnergy(particles))
        /\ (ImpulsesBy("Wall") = {} /\ ImpulsesBy("clamp") = {}) =>
              /\ RelClose(MomentumX(start), MomentumX(particles))
              /\ RelClose(MomentumY(start), MomentumY(particles))

\* a step in which two particles of different mass exchanged a pair
\* impulse and nothing else changed a velocity
C2_Witness ==
    /\ Returned
    /\ ImpulsesBy("Pair") # {}
    /\ ImpulsesBy("Wall") = {} /\ ImpulsesBy("clamp") = {}
    /\ Len(particles) = 2
    /\ particles[1].mass # particles[2].mass
    /\ start[1].vx # particles[1].vx

----------------------------------------------------------------------------
(* C3 *)

\* C3: the time offset of every resolved event is >= 0 and <= the dt that
\* remained when its sub-iteration began, and the remaining dt stays
\* within [0, frame dt]: the in-frame time dt0 - dt of successive events
\* never decreases and never passes the frame's dt.
C3_EventTimeOrder ==
    /\ last.kind = "event" =>
          /\ RLe(Zero, last.time)
          /\ RLe(last.time, last.dt_before)
          /\ dt = RSub(last.dt_before, last.time)
    /\ pc = "loop" => RLe(Zero, dt) /\ RLe(dt, dt0)

\* a second event of one solve, after an event that took part of the frame
C3_Witness ==
    /\ last.kind = "event"
    /\ iter >= 2
    /\ RLt(last.dt_before, dt0)
    /\ RLe(last.time, last.dt_before)

----------------------------------------------------------------------------
(* C4 *)

\* C4: every Pair row written has vrel_n_before < 0 and vrel_n_after equal
\* to -vrel_n_before within tol * max(|vrel_n_before|, 1), whatever the two
\* masses.
C4_PairElastic ==
    (events # <<>> /\ LastEvent.type = "Pair") =>
        /\ RLt(LastEvent.before, Zero)
        /\ RLe(RAbs(RAdd(LastEvent.after, LastEvent.before)),
               RMul(Tol, RMax(RAbs(LastEvent.before), Rat(1))))

\* a Pair row written for two particles of different mass
C4_Witness ==
    /\ events # <<>>
    /\ LastEvent.type = "Pair"
    /\ particles[LastEvent.i].mass # particles[LastEvent.j].mass

----------------------------------------------------------------------------
(* C5 *)

\* C5 as stated: every Wall row written has vn_before > 0 along the normal
\* it records and vn_after = -vn_before.
C5_WallFlips ==
    (events # <<>> /\ LastEvent.type = "Wall") =>
        /\ RLt(Zero, LastEvent.before)
        /\ LastEvent.after = RNeg(LastEvent.before)

----------------------------------------------------------------------------
(* C6 *)

\* the Pair rows among the rows ks that name the particles i and j
Reported(ks, i, j) ==
    \E k \in ks :
        /\ events[k].type = "Pair"
        /\ \/ (events[k].i = i /\ events[k].j = j)
           \/ (events[k].i = j /\ events[k].j = i)

\* C6 as stated: after a step, whenever the validator's pair kernel on the
\* start-of-frame states of two particles yields a time within the frame's
\* dt, a Pair row for the two was written in that frame.
C6_NoMissedCollision ==
    Returned =>
        \A i \in 1..Len(start), j \in 1..Len(start) :
            (i < j /\ v_p2p_toi(ParticleState(RowOf(start, i)),
                                ParticleState(RowOf(start, j)), dt0) # None) =>
                Reported(StepEvents, i, j)

----------------------------------------------------------------------------
(* C7 *)

\* the times find_min_toi of detector m may return for the state
MinTimes(m) ==
    {a.time : a \in find_min_toi(m, rebuild(particles), r_max, particles, bounds, dt)}

\* C7 as stated: wherever solve queries its detector, the three detectors
\* return the same minimum time (all None, or equal times).
C7_DetectorsAgree ==
    (pc = "loop" /\ ~LeEpsT(dt)) =>
        /\ MinTimes("CellList") = MinTimes("Tccd")
        /\ MinTimes("Tccd") = MinTimes("SweptAabb")

----------------------------------------------------------------------------
(* C8 *)

\* C8: one solve begins at most 100 sub-iterations: it is in its loop only
\* with fewer than 100 behind it, so it queries the detector at most 100
\* times, and the events it writes number at most 100, also when events of
\* time 0 repeat.
C8_AtMostMaxIter ==
    /\ iter <= 100
    /\ pc = "loop" => iter < 100
    /\ last.kind = "rest" => iter < 100
    /\ Cardinality(StepEvents) <= iter

\* a solve that used all 100 sub-iterations on events of time 0
C8_Witness ==
    /\ Returned
    /\ iter = 100
    /\ last.kind = "event"
    /\ last.time = Zero
    /\ last.dt_before = dt0
    /\ Cardinality(StepEvents) = 100

----------------------------------------------------------------------------
(* C9 *)

\* C9 as stated: each step writes exactly one snapshot, after its solve and
\* with the frame counter one higher, and every velocity change applied
\* during the step has one events row of its own, the rows in the order of
\* the changes.
C9_SnapshotAndEvents ==
    /\ Len(snapshots) = frame
    /\ Returned =>
          /\ snapshots[frame] = write_particles_snapshot(particles, frame, time_s)
          /\ \A k \in 1..Len(impulses) :
                /\ impulses[k].event \in StepEvents
                /\ \A m \in 1..Len(impulses) :
                      k < m => impulses[k].event < impulses[m].event

----------------------------------------------------------------------------
(* C10 *)

\* what the claim says p2p_toi returns, for the quadratic a, b, c
ClaimedRoot(a, b, c, dtw) ==
    IF \/ RLe(c, Zero)
       \/ LeTiny(a)
       \/ RLe(Zero, b)
       \/ RLt(RSub(RMul(b, b), RMul(Rat(4), RMul(a, c))), Zero)
    THEN None
    ELSE LET t == RDiv(RSub(RNeg(b), RSqrt(RSub(RMul(b, b), RMul(Rat(4), RMul(a, c))))),
                       RMul(Rat(2), a))
         IN  IF RLe(Zero, t) /\ RLe(t, dtw) THEN Some(t) ELSE None

\* a = dv.dv, b = 2 * dp.dv, c = dp.dp - R^2
Claimed(p1, p2, dtw) ==
    LET dpx == RSub(p2.px, p1.px)
        dpy == RSub(p2.py, p1.py)
        dvx == RSub(p2.vx, p1.vx)
        dvy == RSub(p2.vy, p1.vy)
        R == RAdd(p1.radius, p2.radius)
    IN  ClaimedRoot(Dot(dvx, dvy, dvx, dvy), RMul(Rat(2), Dot(dpx, dpy, dvx, dvy)),
                    RSub(Dot(dpx, dpy, dpx, dpy), RMul(R, R)), dtw)

\* C10: the simulator's p2p_toi returns what the claim describes, and the
\* validator's p2p_toi returns the same on the same inputs.
C10_Kernel ==
    pc = "kernel_done" =>
        /\ toi_sim = Claimed(particles[1], particles[2], dt)
        /\ toi_val = toi_sim

\* the kernels were applied to two approaching disks that touch at a time
\* strictly inside the window
C10_Witness ==
    /\ pc = "kernel_done"
    /\ toi_sim # None
    /\ RLt(Zero, Get(toi_sim)) /\ RLt(Get(toi_sim), dt)
    /\ particles[1].radius # particles[2].radius

----------------------------------------------------------------------------
(* C11 *)

\* the time at which the centre reaches, on one axis, the edge it moves to
\* (no time on an axis without velocity)
AxisCrossing(pos, vel, lo, hi) ==
    IF vel = Zero THEN {}
    ELSE {RDiv(RSub(IF RLt(Zero, vel) THEN hi ELSE lo, pos), vel)}

\* the crossing times of both axes that lie in [0, dtw]
CrossingsIn(p, b, dtw) ==
    {t \in AxisCrossing(p.px, p.vx, x_min(p, b), x_max(p, b))
           \cup AxisCrossing(p.py, p.vy, y_min(p, b), y_max(p, b)) :
        RLe(Zero, t) /\ RLe(t, dtw)}

\* C11: boundary_toi returns the least of the times in [0, dt] at which the
\* centre reaches, on an axis with non-zero velocity, the edge of its
\* interval it moves toward, and None when there is no such time.
C11_BoundaryToi ==
    pc = "boundary_done" =>
        IF CrossingsIn(particles[1], bounds, dt) = {}
        THEN toi_sim = None
        ELSE /\ toi_sim \subseteq CrossingsIn(particles[1], bounds, dt)
             /\ toi_sim # None
             /\ \A t \in CrossingsIn(particles[1], bounds, dt) : RLe(Get(toi_sim), t)

\* both axes cross inside the window at different times, and the earlier,
\* positive one is returned
C11_Witness ==
    /\ pc = "boundary_done"
    /\ Cardinality(CrossingsIn(particles[1], bounds, dt)) = 2
    /\ toi_sim # None
    /\ RLt(Zero, Get(toi_sim))

----------------------------------------------------------------------------
(* C12 *)

\* the relative normal velocity of q seen from p, times their distance
ApproachRate(p, q) ==
    Dot(RSub(q.px, p.px), RSub(q.py, p.py), RSub(q.vx, p.vx), RSub(q.vy, p.vy))

\* p and q touch: their distance is at most the sum of their radii
Touching(p, q) ==
    RLe(Dot(RSub(q.px, p.px), RSub(q.py, p.py), RSub(q.px, p.px), RSub(q.py, p.py)),
        RMul(RAdd(p.radius, q.radius), RAdd(p.radius, q.radius)))

\* the separating condition: no two particles that touch still approach
Separating(ps) ==
    \A i \in 1..Len(ps), j \in 1..Len(ps) :
        (i < j /\ Touching(ps[i], ps[j])) => RLe(Zero, ApproachRate(ps[i], ps[j]))

\* the first step on the three particles has ended in the sub-iteration
\* after the one that resolved the first contact, with time left in it
LineSecondIteration ==
    /\ pc = "idle" /\ frame = 2
    /\ bounds = Arena
    /\ iter = 1
    /\ last.kind = "rest"

\* C12: on the three particles, once solve has resolved the first contact
\* and run one more sub-iteration with time left on the clock, no two
\* particles that touch approach each other any more.
C12_SeparatedAfterTwo == LineSecondIteration => Separating(preclamp)

----------------------------------------------------------------------------
(* C13 *)

\* the fields of particle k of ps that are fixed by init
Constitution(ps, k) == <<ps[k].mass, ps[k].radius, ps[k].color>>

\* C13: once init has run, no step of the run changes the number of
\* particles, nor the mass, the radius or the colour found at an index;
\* only positions and velocities change.
C13_OnlyMotionChanges ==
    [][pc # "new" =>
          /\ Len(particles') = Len(particles)
          /\ \A k \in 1..Len(particles) :
                Constitution(particles', k) = Constitution(particles, k)]_vars

\* a step that resolved a pair and a wall event and clamped has returned on
\* two particles of different mass and colour, both moved and turned
C13_Witness ==
    /\ Returned
    /\ Len(particles) = 2
    /\ ImpulsesBy("Pair") # {} /\ ImpulsesBy("clamp") # {}
    /\ Constitution(particles, 1) # Constitution(particles, 2)
    /\ particles[1].mass # particles[2].mass
    /\ \A k \in 1..2 : particles[k].px # start[k].px /\ particles[k].vx # start[k].vx

----------------------------------------------------------------------------
(* C14 *)

\* the rows of a CSV that carry the frame number fr, in the file's order
RowsOf(csv, fr) == SelectSeq(csv.rows, LAMBDA row : row.frame = fr)

\* the particles of a sequence of rows, by particle id
ParticleMapOf(rows) ==
    [id \in {rows[k].particle_id : k \in 1..Len(rows)} |->
        ParticleState(rows[CHOOSE k \in 1..Len(rows) : rows[k].particle_id = id])]

\* the k-th read_frame call returned (it did not fail on a row)
ReadReturned(k) == k < Len(reads) \/ v_pc # "err_parse"

\* the read_frame calls made on one of the readers
ReadsOf(reader) == {k \in 1..Len(reads) : reads[k].reader = reader}

\* the row a reader has peeked is the last row it took from the file, and
\* belongs to a frame that is still to be requested
PeekedKept(csv, stream, requested) ==
    stream.peeked # None =>
        /\ stream.pos \in 1..Len(csv.rows)
        /\ Get(stream.peeked) = csv.rows[stream.pos]
        /\ Get(stream.peeked).frame > requested

\* C14: validate requests the frames in increasing order from CSVs sorted
\* by frame. Every read_frame call that returns gives exactly the rows of
\* the frame it was asked for, each once (the particle reader as one particle
\* per row, the event reader as the rows in order); a row read ahead is the
\* reader's one peeked row and stays until its frame is requested; and the
\* one window validate keeps between two passes is that of the frame before
\* the next one.
C14_ReadersReturnTheFrame ==
    /\ \A k \in ReadsOf("particles") : ReadReturned(k) =>
          /\ reads[k].out.frame = reads[k].frame
          /\ reads[k].out.particles = ParticleMapOf(RowsOf(particles_csv, reads[k].frame))
          /\ Cardinality(DOMAIN reads[k].out.particles)
                = Len(RowsOf(particles_csv, reads[k].frame))
    /\ \A k \in ReadsOf("events") : ReadReturned(k) =>
          reads[k].out = RowsOf(events_csv, reads[k].frame)
    /\ \A k, l \in 1..Len(reads) :
          (k < l /\ reads[k].reader = reads[l].reader) => reads[k].frame < reads[l].frame
    /\ v_pc \in {"loop", "ok"} =>
          /\ PeekedKept(particles_csv, particle_stream, prev_window.frame)
          /\ PeekedKept(events_csv, event_stream, prev_window.frame)
          /\ prev_window.particles = ParticleMapOf(RowsOf(particles_csv, prev_window.frame))
    /\ v_pc = "loop" => prev_window.frame = v_frame - 1

\* three frames of two particles and the events of two frames have been
\* read: each reader peeked a row of the next frame and handed it out when
\* that frame was requested
C14_Witness ==
    /\ v_pc = "ok"
    /\ Len(windows) = 2
    /\ \A k \in ReadsOf("particles") : Cardinality(DOMAIN reads[k].out.particles) = 2
    /\ \E k \in ReadsOf("events") : reads[k].frame = 3 /\ Len(reads[k].out) = 1
    /\ \E k \in ReadsOf("events") : reads[k].frame = 2 /\ Len(reads[k].out) = 1
    /\ Len(events_csv.rows) = 2

----------------------------------------------------------------------------
(* C15 *)

\* validate has returned
ValidateReturned == v_pc \in {"ok", "err_empty", "err_parse"}

\* a reader has come to the row of its CSV that does not parse
HitBadRow(csv, stream) == csv.bad # 0 /\ stream.pos = csv.bad

\* the latest pass of the loop found no particle rows of its frame
StoppedAtEmptyFrame ==
    /\ reads # <<>>
    /\ reads[Len(reads)].reader = "particles"
    /\ reads[Len(reads)].frame > 1
    /\ DOMAIN reads[Len(reads)].out.particles = {}

\* C15: validate returns an error when frame 1 has no particle rows.
\* Otherwise it checks frame 2 against frame 1, frame 3 against frame 2 and
\* so on, and returns the report either at the first frame without particle
\* rows, with max_frame set to the last frame found, or once the frame
\* max_frame is done. It returns an error, and no report, exactly when a
\* reader comes to a row that does not parse.
C15_ValidateOutcome ==
    /\ (ValidateReturned /\ RowsOf(particles_csv, 1) = <<>>) =>
          v_pc \in {"err_empty", "err_parse"}
    /\ v_pc = "err_empty" => RowsOf(particles_csv, 1) = <<>>
    /\ \A k \in 1..Len(windows) :
          /\ windows[k].prev.frame = k /\ windows[k].curr.frame = k + 1
          /\ windows[k].prev.particles = ParticleMapOf(RowsOf(particles_csv, k))
          /\ windows[k].curr.particles = ParticleMapOf(RowsOf(particles_csv, k + 1))
          /\ windows[k].events = RowsOf(events_csv, k + 1)
          /\ RowsOf(particles_csv, k + 1) # <<>>
    /\ v_pc = "ok" =>
          /\ v_frame = Len(windows) + 2
          /\ IF StoppedAtEmptyFrame
             THEN /\ RowsOf(particles_csv, v_frame) = <<>>
                  /\ max_frame = v_frame - 1
             ELSE v_frame > max_frame /\ (max_frame = v_frame - 1 \/ v_frame = 2)
    /\ v_pc = "err_parse" <=>
          \/ HitBadRow(particles_csv, particle_stream)
          \/ HitBadRow(events_csv, event_stream)

\* a trace with frames 1, 2 and 4 was validated up to frame 2: the frame was
\* checked against frame 1, no rows of frame 3 were found, max_frame was
\* lowered from a larger value to 2 and the report returned
C15_Witness ==
    /\ v_pc = "ok"
    /\ StoppedAtEmptyFrame
    /\ Len(windows) = 1
    /\ max_frame = 2
    /\ RowsOf(particles_csv, 4) # <<>>

----------------------------------------------------------------------------
(* C16 *)

\* the misses that the k-th validate_frame call added to the report
MissesOf(k) ==
    {m \in 1..Len(report.missed_collisions) :
        report.missed_collisions[m].frame = windows[k].curr.frame}

\* the unordered pairs of the particles in ids that, by the states of the
\* window prev, meet within [0, dtw] and are named by no Pair event of evs
UnreportedPairs(ids, prev, evs, dtw) ==
    {pair \in SUBSET ids :
        /\ Cardinality(pair) = 2
        /\ \E i, j \in pair :
              /\ i < j
              /\ v_p2p_toi(prev.particles[i], prev.particles[j], dtw) # None
              /\ ~\E k \in 1..Len(evs) :
                     /\ evs[k].type = "Pair"
                     /\ {evs[k].i, evs[k].j} = pair}

\* the misses of the k-th call name exactly the given pairs, each once
MissesAre(k, pairs) ==
    /\ {{report.missed_collisions[m].i, report.missed_collisions[m].j} : m \in MissesOf(k)}
          = pairs
    /\ Cardinality(MissesOf(k)) = Cardinality(pairs)

\* C16: the misses recorded for a frame pair are exactly the pairs of
\* particles that are in both the prev and the curr window, have a pair TOI
\* in [0, dt] by their prev states and are named by no Pair event of the
\* frame, each pair once.
C16_MissesOfPairsInBothWindows ==
    v_pc \in {"loop", "ok"} =>
        \A k \in 1..Len(windows) :
            MissesAre(k, UnreportedPairs(DOMAIN windows[k].prev.particles
                                            \cap DOMAIN windows[k].curr.particles,
                                         windows[k].prev, windows[k].events,
                                         windows[k].dt))

----------------------------------------------------------------------------
(* C17 *)

\* the distance between the two positions recorded on a Pair event
EventDistance(e) ==
    RSqrt(RAdd(RMul(RSub(e.ix, e.jx), RSub(e.ix, e.jx)),
               RMul(RSub(e.iy, e.jy), RSub(e.iy, e.jy))))

\* r_i + r_j, by the radii the window holds
ContactDistance(e, window) ==
    RAdd(window.particles[e.i].radius, window.particles[e.j].radius)

\* |n . n_expected|, n the unit vector between the two recorded positions
Alignment(e) ==
    RAbs(RAdd(RMul(RDiv(RSub(e.ix, e.jx), EventDistance(e)), e.nx),
              RMul(RDiv(RSub(e.iy, e.jy), EventDistance(e)), e.ny)))

\* the conditions under which an event is to be reported as a false positive
IsFalsePositive(e, window) ==
    IF e.type = "Pair"
    THEN \/ e.i \notin DOMAIN window.particles
         \/ e.j \notin DOMAIN window.particles
         \/ RLt(RMul(tolerance, ContactDistance(e, window)),
                RAbs(RSub(EventDistance(e), ContactDistance(e, window))))
         \/ RLt(Alignment(e), RSub(Rat(1), tolerance))
         \/ RLt(RMul(tolerance, RMax(RAbs(e.before), Rat(1))),
                RAbs(RAdd(e.after, e.before)))
    ELSE RLt(tolerance, RAbs(RAdd(e.after, e.before)))

\* the events of the k-th validate_frame call that are false positives
FalseEvents(k) ==
    {n \in 1..Len(windows[k].events) :
        IsFalsePositive(windows[k].events[n], windows[k].prev)}

\* the events of the calls up to the k-th that are none
RECURSIVE ValidEvents(_)
ValidEvents(k) ==
    IF k = 0 THEN 0
    ELSE ValidEvents(k - 1) + Len(windows[k].events) - Cardinality(FalseEvents(k))

----------------------------------------------------------------------------
(* C18 *)

\* <<KE, Px, Py>> of the first n of the rows, by the mass written on each row
RECURSIVE RecordedTotals(_, _)
RecordedTotals(rows, n) ==
    IF n = 0 THEN <<Zero, Zero, Zero>>
    ELSE <<RAdd(RecordedTotals(rows, n - 1)[1],
                RMul(RMul(<<1, 2>>, rows[n].mass),
                     RAdd(RMul(rows[n].vx, rows[n].vx), RMul(rows[n].vy, rows[n].vy)))),
           RAdd(RecordedTotals(rows, n - 1)[2], RMul(rows[n].mass, rows[n].vx)),
           RAdd(RecordedTotals(rows, n - 1)[3], RMul(rows[n].mass, rows[n].vy))>>

FrameTotals(fr) ==
    RecordedTotals(RowsOf(particles_csv, fr), Len(RowsOf(particles_csv, fr)))

\* the change from a to b, relative to the denominator d, exceeds the tolerance
ChangeExceeds(a, b, d) ==
    IF d = Zero THEN a # b ELSE RLt(tolerance, RAbs(RDiv(RSub(b, a), d)))

\* the relative change of the kinetic energy or of a momentum from frame
\* fr - 1 to frame fr exceeds the tolerance
NotConserved(fr) ==
    \/ ChangeExceeds(FrameTotals(fr - 1)[1], FrameTotals(fr)[1], FrameTotals(fr - 1)[1])
    \/ ChangeExceeds(FrameTotals(fr - 1)[2], FrameTotals(fr)[2],
                     RMax(RAbs(FrameTotals(fr - 1)[2]), <<1, 1000000>>))
    \/ ChangeExceeds(FrameTotals(fr - 1)[3], FrameTotals(fr)[3],
                     RMax(RAbs(FrameTotals(fr - 1)[3]), <<1, 1000000>>))

\* C18: a frame is flagged for conservation if and only if the relative
\* change from prev to curr of the total kinetic energy, x momentum or y
\* momentum exceeds the tolerance, the totals taken with the mass recorded
\* for each particle in the trace and the momentum denominators floored at
\* 1e-6.
C18_ConservationByRecordedMass ==
    v_pc \in {"loop", "ok"} =>
        \A k \in 1..Len(windows) :
            (\E n \in 1..Len(report.conservation_violations) :
                report.conservation_violations[n].frame = windows[k].curr.frame)
            <=> NotConserved(windows[k].curr.frame)

----------------------------------------------------------------------------
(* C19: the record find_min_toi returns, whatever the split of the scan.   *)

\* the pair times of particle i with its candidates j > i, and its boundary
\* time, each taken in the whole window [0, dtw]
TimesOf(m, g, rmax, ps, b, dtw, i) ==
    UNION {p2p_toi(ps[i], ps[j], dtw) :
              j \in {Candidates(m, g, rmax, ps, i, dtw)[n] :
                        n \in 1..Len(Candidates(m, g, rmax, ps, i, dtw))}
                    \cap (i + 1)..Len(ps)}
    \cup boundary_toi(ps[i], b, dtw)

AllTimes(m, g, rmax, ps, b, dtw) ==
    UNION {TimesOf(m, g, rmax, ps, b, dtw, i) : i \in 1..Len(ps)}

\* what min_by makes of the results a and b of two parts of the scan, the
\* choice among equal times left open
Reduce2(a, b) ==
    IF a = None THEN {b}
    ELSE IF b = None THEN {a}
    ELSE {c \in {a, b} : RLe(Get(c).time, Get(a).time) /\ RLe(Get(c).time, Get(b).time)}

RECURSIVE Reductions(_, _, _)
\* the results of the scan of particles lo..hi, found[i] being the closure's
\* result for particle i, over every split of lo..hi into two parts that
\* are scanned on their own and then reduced
Reductions(found, lo, hi) ==
    IF lo = hi THEN {found[lo]}
    ELSE UNION {UNION {Reduce2(a, b) : a \in Reductions(found, lo, mid),
                                       b \in Reductions(found, mid + 1, hi)} :
                   mid \in lo..(hi - 1)}

\* the results find_min_toi may return in the current state, the grid rebuilt
ScanResults ==
    Reductions([i \in 1..Len(particles) |->
                   ParticleToi(method, rebuild(particles), r_max, particles,
                               bounds, dt, i)], 1, Len(particles))

\* the record r carries the least of the times ts
IsEarliest(r, ts) ==
    /\ \E t \in ts : RLe(t, r.time) /\ RLe(r.time, t)
    /\ \A t \in ts : RLe(r.time, t)
    /\ r.collision.kind = "Pair" => r.collision.i < r.collision.j

\* solve is about to call find_min_toi
DetectorCalled == pc = "loop" /\ loop_continues(iter) /\ ~LeEpsT(dt)

\* C19: for each detector and every split and reduction of the parallel
\* scan, find_min_toi returns a record whose time is the least of the pair
\* times of every particle i with its broadphase candidates j > i and of
\* the boundary times, all within [0, dt]; it returns None exactly when
\* there is no such time; a returned Pair(i, j) has i < j.  The record the
\* solver goes on with is one of these.
C19_FindMinToi ==
    [][DetectorCalled =>
         LET ts == AllTimes(method, rebuild(particles), r_max, particles, bounds, dt)
         IN /\ \A r \in ScanResults :
                  /\ r = None <=> ts = {}
                  /\ r # None => IsEarliest(Get(r), ts)
            /\ last'.kind = "rest" <=> ts = {}
            /\ last'.kind = "event" =>
                  /\ Some(Toi(last'.time, last'.collision)) \in ScanResults
                  /\ IsEarliest(last', ts)]_vars

\* the first find_min_toi of a step has returned a pair although the scan of
\* another particle found a different record of the same time
C19_Witness ==
    /\ last.kind = "event"
    /\ last.collision.kind = "Pair"
    /\ iter = 1
    /\ Len(start) = 3
    /\ \E i \in 1..3 :
          \E r \in ParticleToi(method, rebuild(start), r_max, start, bounds,
                               last.dt_before, i) :
              r.time = last.time /\ r.collision # last.collision

----------------------------------------------------------------------------
(* C20: the grid's r_max at the detector's calls.                          *)

\* the largest radius among the particles ps does not exceed rmax
CoversRadii(rmax, ps) == \A k \in 1..Len(ps) : RLe(ps[k].radius, rmax)

\* C20: at every find_min_toi call of a run the grid's r_max is at least the
\* radius of every particle, being set to the largest radius when the
\* simulation starts.
C20_RMaxCoversRadii == DetectorCalled => CoversRadii(r_max, particles)


----------------------------------------------------------------------------
(* C21: the grid the detector queries.                                     *)

\* the number of times index k occurs in the list js
Occurrences(js, k) == Cardinality({n \in 1..Len(js) : js[n] = k})

\* in the grid g every index of ps is in the list of the cell of its
\* position, once, and in no other list; g holds no other index
GridOf(g, ps) ==
    /\ \A k \in 1..Len(ps) :
          /\ cell_coord(ps[k].px, ps[k].py) \in DOMAIN g
          /\ \A c \in DOMAIN g :
                Occurrences(g[c], k) =
                    IF c = cell_coord(ps[k].px, ps[k].py) THEN 1 ELSE 0
    /\ \A c \in DOMAIN g : \A n \in 1..Len(g[c]) : g[c][n] \in 1..Len(ps)

\* C21: every sub-iteration of solve that queries the detector rebuilds the
\* grid first, from the particles as the previous event left them: at the
\* find_min_toi call every particle index is in exactly one cell list, that
\* of the cell of its current position, and nothing of an earlier rebuild
\* remains.
C21_GridRebuiltBeforeQuery ==
    [][DetectorCalled => GridOf(cells', particles)]_vars

\* a query after an event of the same step: the grid has been rebuilt for
\* particles that have left the cells they had when the step began
C21_Witness ==
    /\ iter >= 1
    /\ last.kind \in {"rest", "event"}
    /\ cells # rebuild(start)
    /\ \E k \in 1..Len(start) :
          cell_coord(start[k].px, start[k].py) \notin DOMAIN cells

----------------------------------------------------------------------------
(* C22: the pair response.                                                 *)

\* a x b for two plane vectors
Cross(ax, ay, bx, by) == RSub(RMul(ax, by), RMul(ay, bx))

\* the velocity of particle k changed from ps to qs along the line between
\* the two centres only
AlongNormal(ps, qs, k) ==
    Cross(RSub(qs[k].vx, ps[k].vx), RSub(qs[k].vy, ps[k].vy),
          RSub(ps[2].px, ps[1].px), RSub(ps[2].py, ps[1].py)) = Zero

\* two particles of equal mass that approach along the line of their
\* centres with opposite velocities
HeadOn(ps) ==
    /\ ps[1].mass = ps[2].mass
    /\ ps[2].vx = RNeg(ps[1].vx) /\ ps[2].vy = RNeg(ps[1].vy)
    /\ Cross(ps[1].vx, ps[1].vy, RSub(ps[2].px, ps[1].px), RSub(ps[2].py, ps[1].py)) = Zero
    /\ RLt(Zero, Dot(ps[1].vx, ps[1].vy, RSub(ps[2].px, ps[1].px), RSub(ps[2].py, ps[1].py)))

\* C22: resolving Pair(i, j) leaves the total momentum and the total kinetic
\* energy of the two particles unchanged for any two masses and changes the
\* two velocities only along the contact normal; two particles of equal mass
\* approaching head-on with velocities +u and -u exchange their velocities.
C22_PairResponse ==
    pc = "pair_done" =>
        /\ MomentumX(particles) = MomentumX(start)
        /\ MomentumY(particles) = MomentumY(start)
        /\ KineticEnergy(particles) = KineticEnergy(start)
        /\ AlongNormal(start, particles, 1) /\ AlongNormal(start, particles, 2)
        /\ \A k \in 1..2 : particles[k].px = start[k].px /\ particles[k].py = start[k].py
        /\ HeadOn(start) =>
              /\ particles[1].vx = start[2].vx /\ particles[1].vy = start[2].vy
              /\ particles[2].vx = start[1].vx /\ particles[2].vy = start[1].vy

\* an oblique contact of two particles of different mass has changed both
\* velocities
C22_Witness ==
    /\ pc = "pair_done"
    /\ start[1].mass # start[2].mass
    /\ start[2].px # Zero /\ start[2].py # Zero
    /\ particles[1].vx # start[1].vx /\ particles[2].vy # start[2].vy

\* a head-on contact of equal masses has been resolved
C22_WitnessHeadOn == pc = "pair_done" /\ HeadOn(start) /\ particles # start

----------------------------------------------------------------------------
(* C23: the wall response.                                                 *)

\* on one axis the position pos with velocity vel has reached the edge lo
\* (or hi) and moves into it
IntoLow(pos, vel, lo) == RLe(pos, lo) /\ RLt(vel, Zero)
IntoHigh(pos, vel, hi) == RLe(hi, pos) /\ RLt(Zero, vel)

\* one axis of the response as the claim has it: from pos, vel to qos, wel
WallAxisResponse(pos, vel, lo, hi, qos, wel) ==
    /\ (IntoLow(pos, vel, lo) \/ IntoHigh(pos, vel, hi)) => wel = RNeg(vel)
    /\ IntoLow(pos, vel, lo) => qos = lo
    /\ (~IntoLow(pos, vel, lo) /\ IntoHigh(pos, vel, hi)) => qos = hi
    /\ (~IntoLow(pos, vel, lo) /\ ~IntoHigh(pos, vel, hi)) => qos = pos /\ wel = vel

\* C23: resolving Wall(i) negates a velocity component of particle i only
\* when the position on that axis is at or beyond the edge and the component
\* points into that wall, and then puts the position on the edge; both axes
\* may flip in one event; every other component and position, and every
\* other particle, stay.
C23_WallResponse ==
    pc = "wall_done" =>
        /\ WallAxisResponse(start[1].px, start[1].vx,
                            x_min(start[1], bounds), x_max(start[1], bounds),
                            particles[1].px, particles[1].vx)
        /\ WallAxisResponse(start[1].py, start[1].vy,
                            y_min(start[1], bounds), y_max(start[1], bounds),
                            particles[1].py, particles[1].vy)
        /\ particles[1].radius = start[1].radius
        /\ particles[1].mass = start[1].mass
        /\ particles[2] = start[2]

\* one event has flipped both components of particle i and put it into a
\* corner, beside a particle that lies outside the window
C23_Witness ==
    /\ pc = "wall_done"
    /\ particles[1].vx = RNeg(start[1].vx) /\ start[1].vx # Zero
    /\ particles[1].vy = RNeg(start[1].vy) /\ start[1].vy # Zero
    /\ particles[1].px # start[1].px
    /\ ~InInterval(start[2], bounds)

----------------------------------------------------------------------------
(* C24: the final clamp.                                                   *)

\* one axis of the clamp as the claim has it: from pos, vel to qos, wel
ClampAxisResponse(pos, vel, lo, hi, qos, wel) ==
    /\ (RLe(lo, pos) /\ RLe(pos, hi)) => qos = pos /\ wel = vel
    /\ RLt(pos, lo) => qos = lo /\ wel = RNeg(vel)
    /\ (RLe(lo, pos) /\ RLt(hi, pos)) => qos = hi /\ wel = RNeg(vel)

\* C24: the final clamp leaves position and velocity of a particle inside
\* its interval (edges included) as they are; on an axis on which the
\* particle is outside it puts the coordinate on the violated edge and
\* negates that axis's velocity component once, whatever its sign; each axis
\* is treated on its own.
C24_FinalClamp ==
    pc = "clamp_done" =>
        \A k \in 1..Len(start) :
            /\ ClampAxisResponse(start[k].px, start[k].vx,
                                 x_min(start[k], bounds), x_max(start[k], bounds),
                                 particles[k].px, particles[k].vx)
            /\ ClampAxisResponse(start[k].py, start[k].vy,
                                 y_min(start[k], bounds), y_max(start[k], bounds),
                                 particles[k].py, particles[k].vy)
            /\ InInterval(start[k], bounds) => particles[k] = start[k]
            /\ particles[k].radius = start[k].radius
            /\ particles[k].mass = start[k].mass

\* a particle left of its interval and moving back into it has been put on
\* the edge and now moves outward, its y axis untouched; the other particle
\* was inside and stays
C24_Witness ==
    /\ pc = "clamp_done"
    /\ RLt(start[1].px, x_min(start[1], bounds))
    /\ RLt(Zero, start[1].vx)
    /\ particles[1].px = x_min(start[1], bounds)
    /\ particles[1].vx = RNeg(start[1].vx)
    /\ particles[1].py = start[1].py /\ particles[1].vy = start[1].vy
    /\ start[1].vy # Zero
    /\ InInterval(start[2], bounds)

----------------------------------------------------------------------------
(* C25: what the two sweep queries yield.                                  *)

\* the list js holds neither i nor any index twice
ProperCandidates(js, i) ==
    /\ \A n \in 1..Len(js) : js[n] # i
    /\ \A n \in 1..Len(js), k \in 1..Len(js) : js[n] = js[k] => n = k

\* the interval [lo, hi] meets the cells of coordinate c, [c * cell, (c + 1) * cell)
MeetsCells(lo, hi, c) ==
    /\ RLe(RMul(Rat(c), cell_size), hi)
    /\ RLt(lo, RMul(Rat(c + 1), cell_size))

\* the cell c meets the bounding box of the path of p over dtw inflated by r
BoxMeetsCell(p, dtw, r, c) ==
    /\ MeetsCells(RSub(RMin(p.px, RAdd(p.px, RMul(p.vx, dtw))), r),
                  RAdd(RMax(p.px, RAdd(p.px, RMul(p.vx, dtw))), r), c[1])
    /\ MeetsCells(RSub(RMin(p.py, RAdd(p.py, RMul(p.vy, dtw))), r),
                  RAdd(RMax(p.py, RAdd(p.py, RMul(p.vy, dtw))), r), c[2])

\* the indices other than i stored in a cell of g that meets the inflated
\* box of particle i
InBox(g, rmax, ps, i, dtw) ==
    {j \in 1..Len(ps) \ {i} :
        \E c \in DOMAIN g :
            /\ \E n \in 1..Len(g[c]) : g[c][n] = j
            /\ BoxMeetsCell(ps[i], dtw, RAdd(ps[i].radius, rmax), c)}

\* C25: candidates_swept_aabb and candidates_along_sweep_with_radius never
\* yield i itself and never yield an index twice, and candidates_swept_aabb
\* yields every other index stored in a cell that meets the bounding box of
\* particle i's path over dt inflated by r_i + r_max.
C25_SweepCandidates ==
    pc = "grid_done" =>
        \A i \in 1..Len(particles) :
            /\ ProperCandidates(candidates_swept_aabb(cells, r_max, particles, i, dt), i)
            /\ ProperCandidates(
                   candidates_along_sweep_with_radius(cells, r_max, particles, i, dt), i)
            /\ InBox(cells, r_max, particles, i, dt) \subseteq
                   {candidates_swept_aabb(cells, r_max, particles, i, dt)[n] :
                       n \in 1..Len(candidates_swept_aabb(cells, r_max, particles, i, dt))}

\* the box of a particle moving across cells reaches one of the other two
\* particles and not the other, and the cells around its ray hold an index
\* more than once
C25_Witness ==
    /\ pc = "grid_done"
    /\ \E i \in 1..Len(particles) :
          /\ particles[i].vx # Zero /\ particles[i].vy # Zero
          /\ Cardinality(InBox(cells, r_max, particles, i, dt)) = 1
          /\ Len(candidates_swept_aabb(cells, r_max, particles, i, dt)) = 1
          /\ \E j \in 1..Len(particles) \ {i} :
                Occurrences(Flatten(cells,
                    Widen(RayCells(GridRayIter(particles[i].px, particles[i].py,
                                               particles[i].vx, particles[i].vy, dt),
                                   MaxRayCells),
                          sweep_k(Ceil(RDiv(RAdd(particles[i].radius, r_max), cell_size))))),
                    j) > 1

----------------------------------------------------------------------------
(* C26: the cells of the ray march.                                        *)

\* the number of cell edges the coordinate o + d * t crosses for t in
\* [0, tmax], an edge met at its crossing time counted
Crossings(o, d, tmax) ==
    IF RLt(Zero, d)
    THEN Floor(RDiv(RAdd(o, RMul(d, tmax)), cell_size)) - Floor(RDiv(o, cell_size))
    ELSE IF RLt(d, Zero)
    THEN Floor(RDiv(o, cell_size)) + 1 - Ceil(RDiv(RAdd(o, RMul(d, tmax)), cell_size))
    ELSE 0

Sign(d) == IF RLt(Zero, d) THEN 1 ELSE IF RLt(d, Zero) THEN -1 ELSE 0

\* the cell b follows the cell a by one step on one axis, along (dx, dy)
OneStep(a, b, dx, dy) ==
    \/ b[1] = a[1] + Sign(dx) /\ b[2] = a[2] /\ Sign(dx) # 0
    \/ b[2] = a[2] + Sign(dy) /\ b[1] = a[1] /\ Sign(dy) # 0

\* cs is the march from (ox, oy) along (dx, dy) for tmax as the claim has it
IsMarch(cs, ox, oy, dx, dy, tmax) ==
    /\ Len(cs) >= 1
    /\ Len(cs) < MaxRayCells
    /\ cs[1] = cell_coord(ox, oy)
    /\ \A n \in 1..(Len(cs) - 1) : OneStep(cs[n], cs[n + 1], dx, dy)
    /\ Len(cs) <= 1 + Crossings(ox, dx, tmax) + Crossings(oy, dy, tmax)
    /\ RLt(Zero, tmax) =>
          /\ Len(cs) = 1 + Crossings(ox, dx, tmax) + Crossings(oy, dy, tmax)
          /\ cs[Len(cs)] = <<cs[1][1] + Sign(dx) * Crossings(ox, dx, tmax),
                             cs[1][2] + Sign(dy) * Crossings(oy, dy, tmax)>>
    /\ tmax = Zero => cs = <<cell_coord(ox, oy)>>
    /\ (dx = Zero /\ dy = Zero) => cs = <<cell_coord(ox, oy)>>

\* the cells GridRayIter yields for particle p and the time tmax
MarchOf(p, tmax) == RayCells(GridRayIter(p.px, p.py, p.vx, p.vy, tmax), MaxRayCells)

----------------------------------------------------------------------------
(* C27: the time solve hands out.  last.advanced is the sum of the         *)
(* durations passed to advance_all since solve was called.                 *)

\* solve has left its loop by `dt <= EPS_T` or by None, before the cap
EndedEarly == pc = "idle" /\ last.kind \in {"eps", "rest"}

\* C27: in solve the remaining dt is never negative and, wherever the loop
\* stands, the durations passed to advance_all so far and the remaining dt
\* add up to the dt passed in; when the loop ends before the cap of 100
\* passes the particles have been advanced by exactly dt in all.
C27_TimeBudget ==
    /\ pc = "loop" => /\ RLe(Zero, dt)
                      /\ RAdd(last.advanced, dt) = dt0
    /\ EndedEarly => last.advanced = dt0

\* solve ended with None after two events that each took a part of the dt
C27_Witness ==
    /\ EndedEarly
    /\ iter = 2
    /\ RLt(Zero, last.dt_before)
    /\ RLt(last.dt_before, dt0)
    /\ RLt(Zero, dt)

----------------------------------------------------------------------------
(* C28: the frame written on an event.  During a step the recorder's frame *)
(* is that of the snapshot before it; the snapshot that ends the step is   *)
(* written with frame + 1, and the validator reads the events of a window  *)
(* pair under the frame of curr.                                           *)

\* C28: the events applied during the step that turns snapshot k - 1 into
\* snapshot k are the ones the validator reads for the pair (k - 1, k):
\* every event row carries the frame number of the snapshot that is written
\* at the end of the step in which the event was applied.
C28_EventFrameIsSnapshotFrame ==
    [][\A n \in (Len(events) + 1)..Len(events') : events'[n].frame = frame + 1]_vars

----------------------------------------------------------------------------
(* C29: the time written on an event.                                      *)

\* the rows of events are in order of time_s within each frame
TimesAscendWithinFrames ==
    \A n \in 1..(Len(events) - 1) :
        events[n].frame = events[n + 1].frame =>
            RLe(events[n].time_s, events[n + 1].time_s)

\* C29: the time_s of an event row is the start time of its frame plus the
\* in-frame time at which the event was applied, the sum of the toi.time of
\* the events resolved so far in the frame, itself included; so within a
\* frame the time_s of the rows never decreases in the order written.
C29_EventTimeIsFrameTimePlusElapsed ==
    /\ (pc = "loop" /\ last.kind = "event" /\ last.rows > 0) =>
          LastEvent.time_s = RAdd(time_s, last.advanced)
    /\ TimesAscendWithinFrames


----------------------------------------------------------------------------
(* The events CSV between the two programs: the columns the recorder's     *)
(* serializer writes, simulator/src/miscs.rs, and the fields the           *)
(* validator's deserializer fills from them, validate/src/miscs.rs.        *)

\* #[derive(Serialize)] #[serde(tag = "type")] enum EventRow: the fields of
\* a variant, the tag first
event_columns(type) ==
    IF type = "Pair"
    THEN <<"type", "frame", "time_s", "toi", "i", "j", "nx", "ny",
           "vrel_n_before", "vrel_n_after">>
    ELSE <<"type", "frame", "time_s", "toi", "i", "wall", "nx", "ny",
           "vn_before", "vn_after">>

\* the header line of the file: the csv writer takes it from the first row
\* it serializes and writes every later row by position
csv_header(rows) == IF rows = <<>> THEN <<>> ELSE event_columns(rows[1].type)

\* one arm of `match key.as_str()`: the variables the column key fills in a
\* row of the given type
visit_key(key, type) ==
    IF key = "j" THEN (IF type = "Pair" THEN {"j"} ELSE {"wall"})
    ELSE IF key \in {"ix", "iy"} THEN {key}
    ELSE IF key \in {"jx", "jy"} THEN (IF type = "Pair" THEN {key} ELSE {})
    ELSE IF key = "vrel_n_before" THEN {"vn_before"}
    ELSE IF key = "vrel_n_after" THEN {"vn_after"}
    ELSE IF key \in {"type", "frame", "time_s", "toi", "i", "wall", "nx", "ny"} THEN {key}
    ELSE {}

\* the `while let Some(key) = map.next_key()` loop over the header's columns
visit_map(header, type) == UNION {visit_key(header[n], type) : n \in 1..Len(header)}

\* the variables the ok_or_else(missing_field) lines ask for
required_fields(type) ==
    {"type", "frame", "time_s", "toi", "i", "ix", "iy", "nx", "ny",
     "vn_before", "vn_after"}
    \cup (IF type = "Pair" THEN {"j", "jx", "jy"} ELSE {"wall"})

\* the fields whose absence makes deserialize return Err for a row of the
\* given type under the header (empty: Ok)
missing_fields(header, type) == required_fields(type) \ visit_map(header, type)

----------------------------------------------------------------------------
(* C30 *)

\* C30: every event row the recorder writes, Pair or Wall, is parsed without
\* error by the validator's EventRow deserializer: no column the validator
\* requires is absent from the rows the simulator writes.
C30_EventRowsParse ==
    \A n \in 1..Len(events) :
        missing_fields(csv_header(events), events[n].type) = {}


====
